---------------------------- MODULE Spec2Model ----------------------------
(***************************************************************************)
(* A model of the storage-slot resolver and state setter of the            *)
(* evm-state-setter Hardhat plugin (storage-layout.ts, path-utils.ts,      *)
(* slot-utils.ts, index.ts).                                               *)
(*                                                                         *)
(* JavaScript strings are modelled as sequences of one-character strings,  *)
(* so that startsWith, includes, split, lastIndexOf, padStart and the      *)
(* regular expressions of the source are computed as the source computes   *)
(* them.  keccak256 is modelled as a free (collision-free) constructor: a  *)
(* hash is the symbolic term of its input, and the 64 hex digits (or the   *)
(* decimal digits) of a number that contains a hash are one symbolic       *)
(* numeral at the end of the string.                                       *)
(***************************************************************************)
EXTENDS Integers, Sequences, FiniteSets, TLC

(***************************************************************************)
(* Characters and JavaScript string primitives.                            *)
(***************************************************************************)
HexAlphabet == <<"0","1","2","3","4","5","6","7","8","9","a","b","c","d","e","f">>
UpperHex == <<"0","1","2","3","4","5","6","7","8","9","A","B","C","D","E","F">>
DecChars == {HexAlphabet[i] : i \in 1..10}
HexChars == {HexAlphabet[i] : i \in 1..16} \cup {UpperHex[i] : i \in 1..16}

UpperAlphabet == <<"A","B","C","D","E","F","G","H","I","J","K","L","M","N","O","P","Q","R","S","T","U","V","W","X","Y","Z">>
LowerAlphabet == <<"a","b","c","d","e","f","g","h","i","j","k","l","m","n","o","p","q","r","s","t","u","v","w","x","y","z">>

ToLowerChar(c) ==
  IF \E i \in 1..26 : UpperAlphabet[i] = c
    THEN LowerAlphabet[CHOOSE i \in 1..26 : UpperAlphabet[i] = c]
    ELSE c

\* String.prototype.toLowerCase
ToLower(s) == [i \in 1..Len(s) |-> ToLowerChar(s[i])]

\* The character e with an acute accent: one UTF-16 code unit, U+00E9.
EAcute == "U+00E9"

\* String.prototype.charCodeAt for the characters the model uses.
CharCode(c) ==
  IF c \in {HexAlphabet[i] : i \in 1..10}
    THEN 47 + (CHOOSE i \in 1..10 : HexAlphabet[i] = c)
  ELSE IF \E i \in 1..26 : UpperAlphabet[i] = c
    THEN 64 + (CHOOSE i \in 1..26 : UpperAlphabet[i] = c)
  ELSE IF \E i \in 1..26 : LowerAlphabet[i] = c
    THEN 96 + (CHOOSE i \in 1..26 : LowerAlphabet[i] = c)
  ELSE IF c = "_" THEN 95
  ELSE IF c = "-" THEN 45
  ELSE IF c = "." THEN 46
  ELSE IF c = EAcute THEN 233
  ELSE 32

DigitVal(c) == (CHOOSE i \in 1..16 : HexAlphabet[i] = ToLowerChar(c)) - 1

StartsWith(s, p) == Len(s) >= Len(p) /\ SubSeq(s, 1, Len(p)) = p

Includes(s, p) == \E i \in 1..(Len(s) - Len(p) + 1) : SubSeq(s, i, i + Len(p) - 1) = p

\* String.prototype.indexOf: the 0-based position of the first occurrence, or -1.
IndexOf(s, p) ==
  IF Includes(s, p)
    THEN (CHOOSE i \in 1..(Len(s) - Len(p) + 1) :
            /\ SubSeq(s, i, i + Len(p) - 1) = p
            /\ \A j \in 1..(i - 1) : SubSeq(s, j, j + Len(p) - 1) # p) - 1
    ELSE -1

\* String.prototype.lastIndexOf for a one-character pattern (0-based, or -1).
LastIndexOf(s, c) ==
  IF \E i \in 1..Len(s) : s[i] = c
    THEN (CHOOSE i \in 1..Len(s) : s[i] = c /\ \A j \in (i + 1)..Len(s) : s[j] # c) - 1
    ELSE -1

\* String.prototype.substring(a, b) with 0-based a <= b.
Substring(s, a, b) == SubSeq(s, a + 1, b)

\* String.prototype.slice(a) with 0-based a >= 0.
Slice(s, a) == SubSeq(s, a + 1, Len(s))

RECURSIVE Split(_, _)
\* String.prototype.split(sep) for a non-empty separator.
Split(s, sep) ==
  IF Includes(s, sep)
    THEN LET i == IndexOf(s, sep)
         IN <<Substring(s, 0, i)>> \o Split(Slice(s, i + Len(sep)), sep)
    ELSE <<s>>

RECURSIVE TrimLeft(_)
TrimLeft(s) == IF Len(s) > 0 /\ s[1] = " " THEN TrimLeft(Tail(s)) ELSE s

RECURSIVE TrimRight(_)
TrimRight(s) ==
  IF Len(s) > 0 /\ s[Len(s)] = " " THEN TrimRight(SubSeq(s, 1, Len(s) - 1)) ELSE s

Trim(s) == TrimLeft(TrimRight(s))

RECURSIVE Repeat(_, _)
Repeat(c, n) == IF n <= 0 THEN <<>> ELSE <<c>> \o Repeat(c, n - 1)

PadStart(s, n, c) == Repeat(c, n - Len(s)) \o s

PadEnd(s, n, c) == s \o Repeat(c, n - Len(s))

\* /^\d+$/
IsDecDigits(s) == Len(s) > 0 /\ \A i \in 1..Len(s) : s[i] \in DecChars

\* /^[0-9a-fA-F]+$/
IsHexDigits(s) == Len(s) > 0 /\ \A i \in 1..Len(s) : s[i] \in HexChars

RECURSIVE DigitsValue(_, _)
\* The value of a digit string read in the given radix.
DigitsValue(s, radix) ==
  IF Len(s) = 0 THEN 0
  ELSE DigitsValue(SubSeq(s, 1, Len(s) - 1), radix) * radix + DigitVal(s[Len(s)])

RECURSIVE NatDigits(_, _)
NatDigits(n, radix) ==
  IF n < radix THEN <<HexAlphabet[n + 1]>>
  ELSE NatDigits(n \div radix, radix) \o <<HexAlphabet[(n % radix) + 1]>>

\* Number.prototype.toString(radix) / BigInt.prototype.toString(radix) of an integer.
IntToString(n, radix) == IF n < 0 THEN <<"-">> \o NatDigits(-n, radix) ELSE NatDigits(n, radix)

RECURSIVE LeadingDecDigits(_)
LeadingDecDigits(s) ==
  IF Len(s) > 0 /\ s[1] \in DecChars THEN <<s[1]>> \o LeadingDecDigits(Tail(s)) ELSE <<>>

\* parseInt(s, 10) of a plain string: [nan, v].
ParseIntChars(s) ==
  LET t == TrimLeft(s)
      neg == Len(t) > 0 /\ t[1] = "-"
      u == IF Len(t) > 0 /\ t[1] \in {"-", "+"} THEN Tail(t) ELSE t
      d == LeadingDecDigits(u)
  IN IF Len(d) = 0 THEN [nan |-> TRUE, v |-> 0]
     ELSE [nan |-> FALSE, v |-> IF neg THEN -DigitsValue(d, 10) ELSE DigitsValue(d, 10)]

\* BigInt(s) of a plain string: [ok, v]; ok = FALSE is the SyntaxError.
BigIntChars(s) ==
  LET t == Trim(s) IN
  IF Len(t) = 0 THEN [ok |-> TRUE, v |-> 0]
  ELSE IF StartsWith(t, <<"0","x">>) \/ StartsWith(t, <<"0","X">>)
    THEN IF IsHexDigits(Slice(t, 2))
           THEN [ok |-> TRUE, v |-> DigitsValue(Slice(t, 2), 16)]
           ELSE [ok |-> FALSE, v |-> 0]
  ELSE IF IsDecDigits(t) THEN [ok |-> TRUE, v |-> DigitsValue(t, 10)]
  ELSE IF t[1] \in {"-", "+"} /\ IsDecDigits(Tail(t))
    THEN [ok |-> TRUE, v |-> IF t[1] = "-" THEN -DigitsValue(Tail(t), 10)
                                           ELSE DigitsValue(Tail(t), 10)]
  ELSE [ok |-> FALSE, v |-> 0]

(***************************************************************************)
(* Numbers and numerals.  A number is a small integer n, or keccak256 of   *)
(* some data plus n: [sym |-> <<>>, n] or [sym |-> <<term>>, n].  A JS     *)
(* string that holds a number is [cs, big]: the characters cs followed by  *)
(* at most one symbolic numeral [v, radix] (all the digits of v written in *)
(* that radix).  The hex digits of a hash are taken to contain a letter    *)
(* a-f, its decimal digits to be more than 3.                              *)
(***************************************************************************)
Num(n) == [sym |-> <<>>, n |-> n]

IsSmall(x) == x.sym = <<>>

NumAdd(x, k) == [x EXCEPT !.n = @ + k]

\* ethers.keccak256 of the concatenated pieces of data.
Keccak(data) == [sym |-> <<[fn |-> "keccak256", data |-> data]>>, n |-> 0]

\* The number obtained when the decimal digits of x are read as hex digits.
HexOfDec(x) ==
  IF IsSmall(x) THEN Num(DigitsValue(IntToString(x.n, 10), 16))
  ELSE [sym |-> <<[fn |-> "hexOfDec",
                   data |-> <<[enc |-> "dec", cs |-> <<>>, big |-> <<x>>]>>]>>, n |-> 0]

PlainStr(cs) == [cs |-> cs, big |-> <<>>]

\* BigInt.prototype.toString(radix)
NumToStr(x, radix) ==
  IF IsSmall(x) THEN PlainStr(IntToString(x.n, radix))
  ELSE [cs |-> <<>>, big |-> <<[v |-> x, radix |-> radix]>>]

\* `${p}${str}`
Prepend(p, str) == [str EXCEPT !.cs = p \o @]

StrStartsWith0x(str) == StartsWith(str.cs, <<"0","x">>)

\* /^\d+$/.test(str)
StrIsDecDigits(str) ==
  IF str.big = <<>> THEN IsDecDigits(str.cs)
  ELSE (\A i \in 1..Len(str.cs) : str.cs[i] \in DecChars) /\ str.big[1].radix = 10

\* /^[0-9a-fA-F]+$/.test(str)
StrIsHexDigits(str) ==
  IF str.big = <<>> THEN IsHexDigits(str.cs)
  ELSE \A i \in 1..Len(str.cs) : str.cs[i] \in HexChars

\* BigInt(str): [ok, v]
StrBigInt(str) ==
  IF str.big = <<>>
    THEN LET r == BigIntChars(str.cs) IN [ok |-> r.ok, v |-> Num(r.v)]
  ELSE IF str.cs = <<>> /\ str.big[1].radix = 10 THEN [ok |-> TRUE, v |-> str.big[1].v]
  ELSE IF str.cs = <<"0","x">> /\ str.big[1].radix = 16 THEN [ok |-> TRUE, v |-> str.big[1].v]
  ELSE IF str.cs = <<"0","x">> /\ str.big[1].radix = 10
    THEN [ok |-> TRUE, v |-> HexOfDec(str.big[1].v)]
  ELSE [ok |-> FALSE, v |-> Num(0)]

\* ethers.getBigInt(str): BigInt(str), but the empty string is rejected.
GetBigInt(str) ==
  IF str.big = <<>> /\ str.cs = <<>> THEN [ok |-> FALSE, v |-> Num(0)] ELSE StrBigInt(str)

\* parseInt(str, 10): [nan, huge, v]; huge marks a value beyond every bound compared.
StrParseInt(str) ==
  IF str.big = <<>>
    THEN LET r == ParseIntChars(str.cs) IN [nan |-> r.nan, huge |-> FALSE, v |-> r.v]
  ELSE IF str.cs = <<>> /\ str.big[1].radix = 10 THEN [nan |-> FALSE, huge |-> TRUE, v |-> 0]
  ELSE LET r == ParseIntChars(str.cs) IN [nan |-> r.nan, huge |-> FALSE, v |-> r.v]

\* The 32-byte big-endian word of a number, as a piece of hash input:
\* x.toString(16).padStart(64, '0') read as bytes.
WordPiece(x) ==
  IF IsSmall(x)
    THEN [enc |-> "hex", cs |-> PadStart(IntToString(x.n, 16), 64, "0"), big |-> <<>>]
    ELSE [enc |-> "hex", cs |-> <<>>, big |-> <<x>>]

\* The bytes of a plain hex string (ethers.getBytes is case-insensitive).
HexPiece(cs) == [enc |-> "hex", cs |-> ToLower(cs), big |-> <<>>]

\* ethers.toUtf8Bytes(cs)
Utf8Piece(cs) == [enc |-> "utf8", cs |-> cs, big |-> <<>>]

\* ethers.keccak256 returns '0x' followed by 64 hex digits.
HashStr(data) == [cs |-> <<"0","x">>, big |-> <<[v |-> Keccak(data), radix |-> 16]>>]

\* The outcome of a call: a value, or a thrown error with its message (names are
\* the field names a message lists).
Ok(v) == [ok |-> TRUE, err |-> "", names |-> <<>>, v |-> v]

Throw(e) == [ok |-> FALSE, err |-> e, names |-> <<>>, v |-> <<>>]

(***************************************************************************)
(* storage-layout.ts: slot calculations.                                   *)
(***************************************************************************)
SmallSlotLimit == 1000

HexWordDigits == 64

SlotBytes == 32

\* The key bytes of calculateMappingSlot, after the small-numeric-key shortcut.
MappingKeyPiece(key) ==
  IF StartsWith(key, <<"0","x">>)
    THEN LET padded == PadStart(Slice(key, 2), HexWordDigits, "0") IN
         IF IsHexDigits(padded) /\ Len(padded) % 2 = 0
           THEN Ok(HexPiece(padded))
           ELSE Throw("Error calculating mapping slot: invalid BytesLike value")
  ELSE IF IsDecDigits(key) THEN Ok(WordPiece(Num(DigitsValue(key, 10))))
  ELSE Ok(WordPiece(Keccak(<<Utf8Piece(key)>>)))

calculateMappingSlot(slot, key) ==
  IF StrIsDecDigits(slot) /\ ~StrParseInt(slot).huge /\ StrParseInt(slot).v < SmallSlotLimit
    THEN LET slotBytes == WordPiece(Num(StrParseInt(slot).v)) IN
         IF IsDecDigits(key) /\ ParseIntChars(key).v < SmallSlotLimit
           THEN Ok(HashStr(<<WordPiece(Num(ParseIntChars(key).v)), slotBytes>>))
           ELSE LET k == MappingKeyPiece(key) IN
                IF k.ok THEN Ok(HashStr(<<k.v, slotBytes>>)) ELSE k
    ELSE LET slotFormatted == IF StrStartsWith0x(slot) THEN slot ELSE Prepend(<<"0","x">>, slot)
             slotBigInt == GetBigInt(slotFormatted)
             k == MappingKeyPiece(key)
         IN IF ~slotBigInt.ok
              THEN Throw("Error calculating mapping slot: invalid BigNumberish string")
            ELSE IF ~k.ok THEN k
            ELSE Ok(HashStr(<<k.v, WordPiece(slotBigInt.v)>>))

\* index is the result of parseInt: [nan, v].
calculateArraySlot(baseSlot, index) ==
  LET slotFormatted == IF StrStartsWith0x(baseSlot) THEN baseSlot
                       ELSE Prepend(<<"0","x">>, baseSlot)
      slotNumber == GetBigInt(slotFormatted)
  IN IF ~slotNumber.ok THEN Throw("invalid BigNumberish string")
     ELSE IF index.nan THEN Throw("RangeError: NaN cannot be converted to a BigInt")
     ELSE Ok(Prepend(<<"0","x">>, NumToStr(NumAdd(slotNumber.v, index.v), 16)))

\* calculateDynamicArraySlot without the hash of the base slot.
calculateDynamicArraySlotUnhashed(baseSlot, index) ==
  IF index = <<"l","e","n","g","t","h">> \/ index = <<".","l","e","n","g","t","h">> THEN Ok(baseSlot)
  ELSE LET indexNumber == ParseIntChars(index)
           baseSlotBI == StrBigInt(baseSlot)
       IN IF ~baseSlotBI.ok THEN Throw("SyntaxError: Cannot convert to a BigInt")
          ELSE IF indexNumber.nan THEN Throw("RangeError: NaN cannot be converted to a BigInt")
          ELSE Ok(NumToStr(NumAdd(baseSlotBI.v, indexNumber.v), 10))

calculateDynamicArraySlot(baseSlot, index) ==
  IF index = <<"l","e","n","g","t","h">> \/ index = <<".","l","e","n","g","t","h">> THEN Ok(baseSlot)
  ELSE LET indexNumber == ParseIntChars(index)
           baseSlotBI == StrBigInt(baseSlot)
       IN IF ~baseSlotBI.ok THEN Throw("SyntaxError: Cannot convert to a BigInt")
          ELSE IF indexNumber.nan THEN Throw("RangeError: NaN cannot be converted to a BigInt")
          ELSE Ok(NumToStr(NumAdd(Keccak(<<WordPiece(baseSlotBI.v)>>), indexNumber.v), 10))

calculateMemberSlot(parentSlot, offset) ==
  LET slotNumber == GetBigInt(parentSlot)
      offsetSlot == offset \div SlotBytes
  IN IF ~slotNumber.ok THEN Throw("invalid BigNumberish string")
     ELSE Ok(NumToStr(NumAdd(slotNumber.v, offsetSlot), 16))

(***************************************************************************)
(* storage-layout.ts: the layout and the variable lookup.  A layout is     *)
(* [storage, types]: storage is the sequence of [label, slot, offset,      *)
(* type], types the sequence of [id, label, numberOfBytes, members] in the *)
(* order of the JSON object; members = <<>> stands for an absent members   *)
(* field.  None of the code reads a type's encoding, key, value or base.   *)
(***************************************************************************)
HasType(types, id) == \E i \in 1..Len(types) : types[i].id = id

\* types[id]
TypeOf(types, id) == types[CHOOSE i \in 1..Len(types) : types[i].id = id]

\* parseInt(types[id].numberOfBytes || dflt, 10)
NumberOfBytes(types, id, dflt) ==
  LET nb == TypeOf(types, id).numberOfBytes
  IN ParseIntChars(IF nb = <<>> THEN dflt ELSE nb).v

NewVarLocation(name, slot, offset, size, type, children, structInfo) ==
  [name |-> name, slot |-> slot, offset |-> offset, size |-> size, type |-> type,
   children |-> children, structInfo |-> structInfo, parent |-> <<>>]

NewLocation(slot, offset, size, type, children) ==
  [slot |-> slot, offset |-> offset, size |-> size, type |-> type, children |-> children]

\* Result: [tag |-> "ok" | "null" | "throw", err, v].
findVariableLocation(storageLayout, varName) ==
  LET storage == storageLayout.storage
      types == storageLayout.types
  IN
  IF ~\E i \in 1..Len(storage) : storage[i].label = varName
    THEN [tag |-> "null", err |-> "", v |-> <<>>]
  ELSE
  LET storageVar == storage[CHOOSE i \in 1..Len(storage) :
                              /\ storage[i].label = varName
                              /\ \A j \in 1..(i - 1) : storage[j].label # varName]
  IN
  IF ~HasType(types, storageVar.type)
    THEN [tag |-> "throw", err |-> "NotFound: Type information not found for variable",
          v |-> <<>>]
  ELSE
  LET varType == TypeOf(types, storageVar.type)
      slot == PlainStr(storageVar.slot)
      size == NumberOfBytes(types, storageVar.type, <<"0">>)
      members == varType.members
      memberSlot(i) == calculateMemberSlot(slot, members[i].offset)
  IN
  IF \E i \in 1..Len(members) : ~memberSlot(i).ok \/ ~HasType(types, members[i].type)
    THEN [tag |-> "throw", err |-> "TypeError: member type or slot", v |-> <<>>]
  ELSE
  [tag |-> "ok", err |-> "",
   v |-> NewVarLocation(varName, slot, <<storageVar.offset>>, size, storageVar.type,
           [i \in 1..Len(members) |->
              NewVarLocation(members[i].label, memberSlot(i).v,
                             <<members[i].offset % SlotBytes>>,
                             NumberOfBytes(types, members[i].type, <<"0">>),
                             members[i].type, <<>>, <<storageLayout>>)],
           <<storageLayout>>)]

(***************************************************************************)
(* path-utils.ts                                                           *)
(***************************************************************************)
FullSlotSize == 32

getSizeForType(type) ==
  IF StartsWith(type, <<"t","_","u","i","n","t","8">>) \/ StartsWith(type, <<"t","_","b","o","o","l">>) THEN 1
  ELSE IF StartsWith(type, <<"t","_","u","i","n","t","1","6">>) THEN 2
  ELSE IF StartsWith(type, <<"t","_","u","i","n","t","3","2">>) THEN 4
  ELSE IF StartsWith(type, <<"t","_","u","i","n","t","6","4">>) THEN 8
  ELSE IF StartsWith(type, <<"t","_","u","i","n","t","1","2","8">>) THEN 16
  ELSE FullSlotSize

calculateRelativeSlot(baseSlot, relativeSlot) ==
  LET viaParseInt == StrParseInt(baseSlot)
      baseSlotBigInt == IF StrStartsWith0x(baseSlot) THEN GetBigInt(baseSlot)
                        ELSE [ok |-> ~viaParseInt.nan, v |-> Num(viaParseInt.v)]
      relativeSlotNum == ParseIntChars(relativeSlot)
  IN IF ~baseSlotBigInt.ok \/ relativeSlotNum.nan
       THEN Throw("RangeError: NaN cannot be converted to a BigInt")
       ELSE Ok(Prepend(<<"0","x">>, NumToStr(NumAdd(baseSlotBigInt.v, relativeSlotNum.v), 16)))

\* The characters [a-z0-9_] of the key-type fallback pattern.
TypeIdChars ==
  DecChars \cup {"_"} \cup {LowerAlphabet[i] : i \in 1..26}

RECURSIVE LeadingTypeIdChars(_)
LeadingTypeIdChars(s) ==
  IF Len(s) > 0 /\ s[1] \in TypeIdChars THEN <<s[1]>> \o LeadingTypeIdChars(Tail(s))
  ELSE <<>>

\* innerContent.match(/^(t_[a-z0-9_]+)/): <<>> or <<group 1>>.
KeyTypeMatch(s) ==
  IF StartsWith(s, <<"t","_">>) /\ Len(LeadingTypeIdChars(Slice(s, 2))) > 0
    THEN <<<<"t","_">> \o LeadingTypeIdChars(Slice(s, 2))>>
    ELSE <<>>

\* The key type and value type that resolveMappingPath reads from a type id.
MappingTypes(type) ==
  LET dflt == [keyType |-> <<"t","_","u","i","n","t","2","5","6">>, valueType |-> <<"t","_","b","o","o","l">>]
      endParenIndex == LastIndexOf(type, ")")
      innerContent == Substring(type, 10, endParenIndex)
  IN
  IF ~(StartsWith(type, <<"t","_","m","a","p","p","i","n","g","(">>) /\ endParenIndex > 10) THEN dflt
  ELSE IF Includes(innerContent, <<"=",">">>)
    THEN LET parts == Split(innerContent, <<"=",">">>)
         IN [keyType |-> Trim(parts[1]), valueType |-> Trim(parts[2])]
  ELSE IF Includes(innerContent, <<",">>)
    THEN LET parts == Split(innerContent, <<",">>)
         IN [keyType |-> Trim(parts[1]), valueType |-> Trim(parts[2])]
  ELSE IF KeyTypeMatch(innerContent) # <<>>
    THEN [dflt EXCEPT !.keyType = KeyTypeMatch(innerContent)[1]]
  ELSE dflt

\* The key as resolveMappingPath hands it to calculateMappingSlot.
FormatKey(keyType, key) ==
  IF Includes(keyType, <<"t","_","a","d","d","r","e","s","s">>)
    THEN IF StartsWith(key, <<"0","x">>) THEN key ELSE <<"0","x">> \o key
  ELSE IF Includes(keyType, <<"t","_","u","i","n","t">>) \/ Includes(keyType, <<"t","_","i","n","t">>)
    THEN IF BigIntChars(key).ok THEN IntToString(BigIntChars(key).v, 10) ELSE key
  ELSE key

\* The match of /t_struct\(([^)]*)\)(\d+)_storage/ that starts at 0-based i,
\* as <<>> or <<group 1>>.
StructMatchAt(s, i) ==
  LET rest == Slice(s, i + 9)
      close == IndexOf(rest, <<")">>)
      after == Slice(rest, close + 1)
      digits == LeadingDecDigits(after)
  IN IF StartsWith(Slice(s, i), <<"t","_","s","t","r","u","c","t","(">>) /\ close >= 0 /\ Len(digits) > 0
        /\ StartsWith(Slice(after, Len(digits)), <<"_","s","t","o","r","a","g","e">>)
       THEN <<Substring(rest, 0, close)>>
       ELSE <<>>

\* valueType.match(/t_struct\(([^)]*)\)(\d+)_storage/): <<>> or <<group 1>>.
StructMatch(s) ==
  IF \E i \in 0..(Len(s) - 1) : StructMatchAt(s, i) # <<>>
    THEN StructMatchAt(s, CHOOSE i \in 0..(Len(s) - 1) :
                            /\ StructMatchAt(s, i) # <<>>
                            /\ \A j \in 0..(i - 1) : StructMatchAt(s, j) = <<>>)
    ELSE <<>>

\* type.match(/t_array\((.*?)\)/): <<>> or <<group 1>>.
ArrayMatch(type) ==
  LET i == IndexOf(type, <<"t","_","a","r","r","a","y","(">>)
      rest == Slice(type, i + 8)
      close == IndexOf(rest, <<")">>)
  IN IF i >= 0 /\ close >= 0 THEN <<Substring(rest, 0, close)>> ELSE <<>>

\* /t_struct\((.*?)\)/ of the missing-children error message.
StructNameMatch(type) ==
  LET i == IndexOf(type, <<"t","_","s","t","r","u","c","t","(">>)
      rest == Slice(type, i + 9)
      close == IndexOf(rest, <<")">>)
  IN IF i >= 0 /\ close >= 0 THEN <<Substring(rest, 0, close)>> ELSE <<>>

\* The struct type that resolveMappingPath finds for a struct value type:
\* <<>> or <<type entry>>.
FindStructType(types, structMatch) ==
  LET structName == IF structMatch # <<>> /\ structMatch[1] # <<>> THEN structMatch[1]
                    ELSE <<"u","n","k","n","o","w","n">>
      hit(t) == \/ t.label = <<"s","t","r","u","c","t"," ">> \o structName
                \/ t.label = <<"s","t","r","u","c","t"," ","T","e","s","t","C","o","n","t","r","a","c","t",".">> \o structName
                \/ (structMatch # <<>> /\ t.label = <<"s","t","r","u","c","t"," ">> \o structMatch[1])
  IN IF \E i \in 1..Len(types) : hit(types[i])
       THEN <<types[CHOOSE i \in 1..Len(types) :
                      hit(types[i]) /\ \A j \in 1..(i - 1) : ~hit(types[j])]>>
       ELSE <<>>

\* The name of a raw layout member used as a child: it has a label and no name.
UndefinedName == <<"undefined">>

\* hre.stateSetter._getStorageLayoutForType(typeName): the members of the first
\* layout of the storage-layouts directory that has the type, or <<>>.
GetStorageLayoutForType(hre, typeName) ==
  IF \E i \in 1..Len(hre) : HasType(hre[i].types, typeName)
    THEN TypeOf(hre[CHOOSE i \in 1..Len(hre) :
                      /\ HasType(hre[i].types, typeName)
                      /\ \A j \in 1..(i - 1) : ~HasType(hre[j].types, typeName)].types,
                typeName).members
    ELSE <<>>

RawChildren(members) ==
  [i \in 1..Len(members) |->
     NewVarLocation(UndefinedName, PlainStr(members[i].slot), <<members[i].offset>>, 0,
                    members[i].type, <<>>, <<>>)]

\* varLocation.children.map(c => c.name)
ChildNames(children) == [i \in 1..Len(children) |-> children[i].name]
(***************************************************************************)
(* path-utils.ts: resolveMappingPath, resolveArrayPath, resolveStructPath. *)
(* Each function is split at its local constants: the operator named as in *)
(* the source computes them and hands them on.  hre is the ambient         *)
(* (global as any).hre: the layouts its storage-layouts directory holds    *)
(* (<<>> when there is no hre or no directory).  An operator gives what    *)
(* one activation of its function does: the location it returns, the error *)
(* it throws, or the call it ends with (return resolve...Path(...)), whose *)
(* result is then the result of the activation.                            *)
(***************************************************************************)
\* return fn(varLocation, path): the call an activation ends with.
Call(fn, varLocation, path) ==
  [ok |-> FALSE, err |-> "", names |-> <<>>, v |-> <<>>,
   call |-> <<[fn |-> fn, varLocation |-> varLocation, path |-> path]>>]

IsCall(r) == "call" \in DOMAIN r

\* A recursive call that hands the whole path on.
DescendWhole(fn, varLocation, path) == Call(fn, varLocation, path)

\* return fn(varLocation, path.slice(1)): the recursive call of a resolver.
Descend(fn, varLocation, path) == Call(fn, varLocation, Tail(path))

\* structChildren: the members of the struct type found, at their slots.
StructChildren(types, members, mappingSlot) ==
  [i \in 1..Len(members) |->
     NewVarLocation(members[i].label,
                    calculateRelativeSlot(mappingSlot,
                      IF members[i].slot = <<>> THEN <<"0">> ELSE members[i].slot).v,
                    <<members[i].offset>>,
                    IF HasType(types, members[i].type)
                      THEN NumberOfBytes(types, members[i].type, <<"3","2">>)
                      ELSE FullSlotSize,
                    members[i].type, <<>>, <<>>)]

\* The branch of resolveMappingPath for a mapping to structs, from structMatch
\* and the struct type found in the layout (<<>> when none is).
MappingToStruct(varLocation, path, hre, valueType, mappingSlot, structMatch, structType) ==
  IF structType # <<>>
       /\ \E i \in 1..Len(structType[1].members) :
            ~calculateRelativeSlot(mappingSlot,
               IF structType[1].members[i].slot = <<>> THEN <<"0">>
               ELSE structType[1].members[i].slot).ok
    THEN Throw("RangeError: NaN cannot be converted to a BigInt")
    ELSE Descend("resolveStructPath",
           NewVarLocation(IF structMatch # <<>> /\ structMatch[1] # <<>> THEN structMatch[1]
                          ELSE <<"u","n","k","n","o","w","n">>,
                          mappingSlot, <<>>, FullSlotSize, valueType,
                          IF structType # <<>>
                            THEN StructChildren(varLocation.structInfo[1].types,
                                                structType[1].members, mappingSlot)
                            ELSE <<>>,
                          <<>>), path)

\* resolveMappingPath from the slot of the key on.
MappingPathAt(varLocation, path, hre, valueType, mappingSlot) ==
  IF Len(path) = 1
    THEN Ok(NewLocation(mappingSlot, <<>>, getSizeForType(valueType), valueType, <<>>))
  ELSE IF StartsWith(valueType, <<"t","_","m","a","p","p","i","n","g">>)
    THEN Descend("resolveMappingPath",
           NewVarLocation(<<"i","n","n","e","r","M","a","p","p","i","n","g">>, mappingSlot, <<>>, FullSlotSize, valueType,
                          <<>>, <<>>), path)
  ELSE IF StartsWith(valueType, <<"t","_","a","r","r","a","y">>)
    THEN Descend("resolveArrayPath",
           NewVarLocation(<<"i","n","n","e","r","A","r","r","a","y">>, mappingSlot, <<>>, FullSlotSize, valueType,
                          <<>>, <<>>), path)
  ELSE IF StartsWith(valueType, <<"t","_","s","t","r","u","c","t">>)
    THEN MappingToStruct(varLocation, path, hre, valueType, mappingSlot,
                         StructMatch(valueType),
                         IF varLocation.structInfo # <<>>
                           THEN FindStructType(varLocation.structInfo[1].types,
                                               StructMatch(valueType))
                           ELSE <<>>)
  ELSE Ok(NewLocation(mappingSlot, <<>>, getSizeForType(valueType), valueType, <<>>))

\* resolveMappingPath from the result of calculateMappingSlot on.
MappingPathFrom(varLocation, path, hre, valueType, mappingSlot) ==
  IF ~mappingSlot.ok THEN mappingSlot
  ELSE MappingPathAt(varLocation, path, hre, valueType, mappingSlot.v)

\* resolveMappingPath from keyType and valueType on.
MappingPathTyped(varLocation, path, hre, types) ==
  MappingPathFrom(varLocation, path, hre, types.valueType,
                  calculateMappingSlot(varLocation.slot, FormatKey(types.keyType, path[1])))

resolveMappingPath(varLocation, path, hre) ==
  MappingPathTyped(varLocation, path, hre, MappingTypes(varLocation.type))

\* The location of the length of an array.
LengthLocation(varLocation) ==
  NewVarLocation(varLocation.name \o <<".","l","e","n","g","t","h">>, varLocation.slot, <<0>>, FullSlotSize,
                 <<"t","_","u","i","n","t","2","5","6">>, <<>>, <<>>)

\* resolveArrayPath of an element, from elementSlot and elementType on.
ElementPathAt(varLocation, path, hre, elementSlot, elementType) ==
  IF Len(path) = 1
    THEN Ok(NewLocation(elementSlot, <<>>, getSizeForType(elementType), elementType, <<>>))
  ELSE IF StartsWith(elementType, <<"t","_","s","t","r","u","c","t">>)
    THEN Descend("resolveStructPath",
           NewVarLocation(<<"i","n","n","e","r","S","t","r","u","c","t">>, elementSlot, <<>>, getSizeForType(elementType),
                          elementType, varLocation.children, <<>>), path)
  ELSE IF StartsWith(elementType, <<"t","_","a","r","r","a","y">>)
    THEN Descend("resolveArrayPath",
           NewVarLocation(<<"i","n","n","e","r","A","r","r","a","y">>, elementSlot, <<>>, FullSlotSize, elementType,
                          <<>>, <<>>), path)
  ELSE IF StartsWith(elementType, <<"t","_","m","a","p","p","i","n","g">>)
    THEN Descend("resolveMappingPath",
           NewVarLocation(<<"i","n","n","e","r","M","a","p","p","i","n","g">>, elementSlot, <<>>, FullSlotSize, elementType,
                          <<>>, <<>>), path)
  ELSE Throw("Unsupported nested array element type")

\* resolveArrayPath of an element, from the result of the slot calculation and
\* typeMatch on.
ElementPathFrom(varLocation, path, hre, elementSlot, typeMatch) ==
  IF ~elementSlot.ok THEN elementSlot
  ELSE IF typeMatch = <<>> \/ typeMatch[1] = <<>> THEN Throw("Invalid array type")
  ELSE ElementPathAt(varLocation, path, hre, elementSlot.v, typeMatch[1])

resolveArrayPath(varLocation, path, hre) ==
  IF Len(path) = 0
    THEN Ok(NewLocation(varLocation.slot, varLocation.offset, varLocation.size,
                        varLocation.type, <<>>))
  ELSE IF path[1] = <<"l","e","n","g","t","h">> \/ path[1] = <<".","l","e","n","g","t","h">>
    THEN IF Len(Tail(path)) > 0
           THEN Descend("resolveStructPath", LengthLocation(varLocation), path)
           ELSE Ok(NewLocation(varLocation.slot, <<0>>, FullSlotSize, <<"t","_","u","i","n","t","2","5","6">>, <<>>))
  ELSE ElementPathFrom(varLocation, path, hre,
         IF Includes(varLocation.type, <<"t","_","a","r","r","a","y">>) /\ Includes(varLocation.type, <<"d","y","n">>)
           THEN calculateDynamicArraySlot(varLocation.slot, path[1])
           ELSE calculateArraySlot(varLocation.slot, ParseIntChars(path[1])),
         ArrayMatch(varLocation.type))

\* varLocation.children as resolveStructPath completes them: from the types of the
\* parent, else from the hre.
ChildrenOf(varLocation, hre) ==
  IF varLocation.children # <<>> THEN varLocation.children
  ELSE IF /\ varLocation.parent # <<>>
          /\ HasType(varLocation.parent[1].types, varLocation.type)
          /\ TypeOf(varLocation.parent[1].types, varLocation.type).members # <<>>
    THEN RawChildren(TypeOf(varLocation.parent[1].types, varLocation.type).members)
  ELSE RawChildren(GetStorageLayoutForType(hre, varLocation.type))

\* children.find(child => child.name === fieldName), when there is one.
FindChild(children, fieldName) ==
  children[CHOOSE i \in 1..Len(children) :
             /\ children[i].name = fieldName
             /\ \A j \in 1..(i - 1) : children[j].name # fieldName]

\* resolveStructPath from the field found on.
FieldPathAt(varLocation, path, hre, field) ==
  IF Len(path) = 1
    THEN Ok(NewLocation(field.slot, field.offset, field.size, field.type, <<>>))
  ELSE IF StartsWith(field.type, <<"t","_","s","t","r","u","c","t">>)
    THEN Descend("resolveStructPath",
           IF varLocation.parent # <<>> THEN [field EXCEPT !.parent = varLocation.parent]
           ELSE field, path)
  ELSE IF StartsWith(field.type, <<"t","_","m","a","p","p","i","n","g">>) THEN Descend("resolveMappingPath", field, path)
  ELSE IF StartsWith(field.type, <<"t","_","a","r","r","a","y">>) THEN Descend("resolveArrayPath", field, path)
  ELSE Throw("Unsupported nested struct field type")

\* resolveStructPath from the completed children on.
FieldPathIn(varLocation, path, hre, children) ==
  IF children = <<>> THEN Throw("No struct members information found")
  ELSE IF ~\E i \in 1..Len(children) : children[i].name = path[1]
    THEN [Throw("Field not found in struct") EXCEPT !.names = ChildNames(children)]
  ELSE FieldPathAt(varLocation, path, hre, FindChild(children, path[1]))

resolveStructPath(varLocation, path, hre) ==
  FieldPathIn(varLocation, path, hre, ChildrenOf(varLocation, hre))

(***************************************************************************)
(* storage-layout.ts: getStorageLocation.  loaded is the outcome of        *)
(* loadStorageLayout: <<>> when it throws, else <<layout>>.                *)
(***************************************************************************)
\* getStorageLocation from the result of findVariableLocation on.
LocationOf(found, path, hre) ==
  IF found.tag = "throw" THEN Throw(found.err)
  ELSE IF found.tag = "null" THEN Throw("NotFound: Variable not found in contract")
  ELSE IF Len(path) = 0
    THEN Ok(NewLocation(found.v.slot, found.v.offset, found.v.size, found.v.type,
                        found.v.children))
  ELSE IF StartsWith(found.v.type, <<"t","_","m","a","p","p","i","n","g">>) THEN Call("resolveMappingPath", found.v, path)
  ELSE IF StartsWith(found.v.type, <<"t","_","a","r","r","a","y">>) THEN Call("resolveArrayPath", found.v, path)
  ELSE IF StartsWith(found.v.type, <<"t","_","s","t","r","u","c","t">>) THEN Call("resolveStructPath", found.v, path)
  ELSE Throw("Unsupported variable type for path access")

\* The activation of the resolver a call names.
Enter(call, hre) ==
  IF call.fn = "resolveMappingPath" THEN resolveMappingPath(call.varLocation, call.path, hre)
  ELSE IF call.fn = "resolveArrayPath" THEN resolveArrayPath(call.varLocation, call.path, hre)
  ELSE resolveStructPath(call.varLocation, call.path, hre)

\* The result of an activation: its own, or that of the call it ends with.
RECURSIVE ResultOf(_, _)
ResultOf(r, hre) == IF IsCall(r) THEN ResultOf(Enter(r.call[1], hre), hre) ELSE r

\* The activation of getStorageLocation.
StorageLocation(loaded, varName, path, hre) ==
  IF loaded = <<>> THEN Throw("Error loading storage layout")
  ELSE LocationOf(findVariableLocation(loaded[1], varName), path, hre)

getStorageLocation(loaded, varName, path, hre) ==
  ResultOf(StorageLocation(loaded, varName, path, hre), hre)

(***************************************************************************)
(* slot-utils.ts: value encoding.  A JS value is [t, n, s]: a number n, a  *)
(* boolean (n = 1 for true, 0 for false) or a string s.  An encoded value  *)
(* is the string the encoder returns ('0x' and its digits).                *)
(***************************************************************************)
NumberValue(n) == [t |-> "number", n |-> n, s |-> <<>>]

BooleanValue(b) == [t |-> "boolean", n |-> IF b THEN 1 ELSE 0, s |-> <<>>]

StringValue(s) == [t |-> "string", n |-> 0, s |-> s]

\* BigInt(value): [ok, v]
ValueBigInt(value) ==
  IF value.t = "string" THEN BigIntChars(value.s) ELSE [ok |-> TRUE, v |-> value.n]

\* The truthiness of a value.
Truthy(value) == IF value.t = "string" THEN value.s # <<>> ELSE value.n # 0

ZeroWord == <<"0","x">> \o Repeat("0", HexWordDigits)

\* encodeUintForStorage padding to the size of the cell only.
encodeUintForStorageUnpadded(value, size) ==
  LET bigIntValue == ValueBigInt(value)
  IN IF bigIntValue.ok
       THEN Ok(<<"0","x">> \o PadStart(IntToString(bigIntValue.v, 16), size * 2, "0"))
       ELSE Ok(ZeroWord)

encodeUintForStorage(value, size) ==
  LET bigIntValue == ValueBigInt(value)
  IN IF bigIntValue.ok
       THEN Ok(<<"0","x">> \o PadStart(IntToString(bigIntValue.v, 16), HexWordDigits, "0"))
       ELSE Ok(ZeroWord)

\* (v & ((1n << BigInt(size * 8)) - 1n)).toString(16) for -(256^3) <= v < 0.
TwosComplementHex(v, size) ==
  IF size <= 3 THEN IntToString(v % (256 ^ size), 16)
  ELSE Repeat("f", 2 * (size - 3)) \o PadStart(IntToString(v % (256 ^ 3), 16), 6, "0")

\* encodeIntForStorage with the mask of the whole word: the sign is extended.
encodeIntForStorageSignExtended(value, size) ==
  LET bigIntValue == ValueBigInt(value)
      hex == IF bigIntValue.v < 0 THEN TwosComplementHex(bigIntValue.v, SlotBytes)
             ELSE IntToString(bigIntValue.v, 16)
  IN IF ~bigIntValue.ok THEN Throw("SyntaxError: Cannot convert to a BigInt")
     ELSE Ok(<<"0","x">> \o PadStart(PadStart(hex, size * 2, "0"), HexWordDigits, "0"))

encodeIntForStorage(value, size) ==
  LET bigIntValue == ValueBigInt(value)
      hex == IF bigIntValue.v < 0 THEN TwosComplementHex(bigIntValue.v, size)
             ELSE IntToString(bigIntValue.v, 16)
  IN IF ~bigIntValue.ok THEN Throw("SyntaxError: Cannot convert to a BigInt")
     ELSE Ok(<<"0","x">> \o PadStart(PadStart(hex, size * 2, "0"), HexWordDigits, "0"))

encodeBoolForStorage(value) ==
  IF Truthy(value) THEN Ok(<<"0","x">> \o PadStart(<<"1">>, HexWordDigits, "0")) ELSE Ok(ZeroWord)

encodeAddressForStorage(value) ==
  IF value.t # "string" THEN Throw("TypeError: value.startsWith is not a function")
  ELSE LET v == IF StartsWith(value.s, <<"0","x">>) THEN Slice(value.s, 2) ELSE value.s
       IN Ok(<<"0","x">> \o PadStart(ToLower(v), HexWordDigits, "0"))

MaxShortString == 31

RECURSIVE CharCodesHex(_)
CharCodesHex(s) ==
  IF Len(s) = 0 THEN <<>>
  ELSE PadStart(IntToString(CharCode(s[1]), 16), 2, "0") \o CharCodesHex(Tail(s))

encodeStringForStorage(value) ==
  IF value.t = "string" /\ Len(value.s) <= MaxShortString
    THEN Ok(<<"0","x">> \o PadEnd(CharCodesHex(value.s), HexWordDigits - 2, "0")
              \o PadStart(IntToString(Len(value.s) * 2, 16), 2, "0"))
    ELSE Throw("Long strings not supported for direct storage setting")

encodeValueForStorage(value, location) ==
  LET type == location.type
      size == location.size
  IN IF StartsWith(type, <<"t","_","u","i","n","t">>) THEN encodeUintForStorage(value, size)
     ELSE IF StartsWith(type, <<"t","_","i","n","t">>) THEN encodeIntForStorage(value, size)
     ELSE IF StartsWith(type, <<"t","_","b","o","o","l">>) THEN encodeBoolForStorage(value)
     ELSE IF StartsWith(type, <<"t","_","a","d","d","r","e","s","s">>) THEN encodeAddressForStorage(value)
     ELSE IF StartsWith(type, <<"t","_","s","t","r","i","n","g">>) \/ StartsWith(type, <<"t","_","b","y","t","e","s">>)
       THEN encodeStringForStorage(value)
     ELSE IF StartsWith(type, <<"t","_","e","n","u","m">>) THEN encodeUintForStorage(value, size)
     ELSE IF StartsWith(type, <<"t","_","c","o","n","t","r","a","c","t">>) THEN encodeAddressForStorage(value)
     ELSE encodeUintForStorage(value, size)

(***************************************************************************)
(* slot-utils.ts: formatSlot and the partial-word merge.                   *)
(***************************************************************************)
formatSlot(slot) ==
  IF StrStartsWith0x(slot) THEN slot
  ELSE IF StrBigInt(slot).ok THEN Prepend(<<"0","x">>, NumToStr(StrBigInt(slot).v, 16))
  ELSE Prepend(<<"0","x">>, slot)

\* A string BigInt() reads as a hexadecimal literal.
IsHexLiteral(s) == StartsWith(s, <<"0","x">>) /\ IsHexDigits(Slice(s, 2))

\* The k-th hex digit (k = 0 is the lowest) of the number a hex literal denotes.
NibbleAt(s, k) == IF k < Len(s) - 2 THEN ToLowerChar(s[Len(s) - k]) ELSE "0"

RECURSIVE StripLeadingZeros(_)
StripLeadingZeros(d) ==
  IF Len(d) > 1 /\ d[1] = "0" THEN StripLeadingZeros(Tail(d)) ELSE d

Max(a, b) == IF a >= b THEN a ELSE b

\* MergePartial without the shift of the value to its offset.
MergePartialUnshifted(currentValue, value, offset, size) ==
  LET n == Max(Len(currentValue) - 2, 2 * (offset + size))
      digit(k) == IF offset <= k \div 2 /\ k \div 2 < offset + size
                    THEN NibbleAt(value, k)
                    ELSE NibbleAt(currentValue, k)
      digits == [i \in 1..n |-> digit(n - i)]
  IN IF ~IsHexLiteral(currentValue) \/ ~IsHexLiteral(value)
       THEN Throw("SyntaxError: Cannot convert to a BigInt")
       ELSE Ok(<<"0","x">> \o PadStart(StripLeadingZeros(digits), HexWordDigits, "0"))

\* The resultHex of setPartialSlotValue.  Masking, clearing, shifting and or-ing the
\* BigInts is, digit by digit: inside bytes [offset, offset + size) the digit of
\* value << (offset * 8), elsewhere the digit of the current word.
MergePartial(currentValue, value, offset, size) ==
  LET n == Max(Len(currentValue) - 2, 2 * (offset + size))
      digit(k) == IF offset <= k \div 2 /\ k \div 2 < offset + size
                    THEN NibbleAt(value, k - 2 * offset)
                    ELSE NibbleAt(currentValue, k)
      digits == [i \in 1..n |-> digit(n - i)]
  IN IF ~IsHexLiteral(currentValue) \/ ~IsHexLiteral(value)
       THEN Throw("SyntaxError: Cannot convert to a BigInt")
       ELSE Ok(<<"0","x">> \o PadStart(StripLeadingZeros(digits), HexWordDigits, "0"))

(***************************************************************************)
(* The storage layouts the model resolves against: the compiler's layout   *)
(* of contracts/TestContract.sol and contracts/TokenVault.sol, and of a    *)
(* third contract, Ledger, with packed fields, more key types and          *)
(* variables at slots of 10 and more and of 1000 and more.                 *)
(***************************************************************************)
Var(label, slot, offset, type) ==
  [label |-> label, slot |-> slot, offset |-> offset, type |-> type]

Ty(id, label, numberOfBytes, members) ==
  [id |-> id, label |-> label, numberOfBytes |-> numberOfBytes, members |-> members]

PersonType == <<"t","_","s","t","r","u","c","t","(","P","e","r","s","o","n",")","2","5","_","s","t","o","r","a","g","e">>

PersonMembers ==
  << Var(<<"n","a","m","e">>, <<"0">>, 0, <<"t","_","s","t","r","i","n","g","_","s","t","o","r","a","g","e">>),
     Var(<<"a","g","e">>, <<"1">>, 0, <<"t","_","u","i","n","t","2","5","6">>),
     Var(<<"w","a","l","l","e","t">>, <<"2">>, 0, <<"t","_","a","d","d","r","e","s","s">>),
     Var(<<"a","c","t","i","v","e">>, <<"2">>, 20, <<"t","_","b","o","o","l">>) >>

TestContractLayout ==
  [storage |->
     << Var(<<"s","i","m","p","l","e","U","i","n","t">>, <<"0">>, 0, <<"t","_","u","i","n","t","2","5","6">>),
        Var(<<"s","i","m","p","l","e","B","o","o","l">>, <<"1">>, 0, <<"t","_","b","o","o","l">>),
        Var(<<"s","i","m","p","l","e","A","d","d","r","e","s","s">>, <<"1">>, 1, <<"t","_","a","d","d","r","e","s","s">>),
        Var(<<"s","i","m","p","l","e","S","t","r","i","n","g">>, <<"2">>, 0, <<"t","_","s","t","r","i","n","g","_","s","t","o","r","a","g","e">>),
        Var(<<"u","i","n","t","A","r","r","a","y">>, <<"3">>, 0, <<"t","_","a","r","r","a","y","(","t","_","u","i","n","t","2","5","6",")","d","y","n","_","s","t","o","r","a","g","e">>),
        Var(<<"s","t","r","i","n","g","M","a","p","p","i","n","g">>, <<"4">>, 0, <<"t","_","m","a","p","p","i","n","g","(","t","_","u","i","n","t","2","5","6",",","t","_","s","t","r","i","n","g","_","s","t","o","r","a","g","e",")">>),
        Var(<<"p","e","r","s","o","n">>, <<"5">>, 0, PersonType),
        Var(<<"p","e","r","s","o","n","B","y","A","d","d","r","e","s","s">>, <<"8">>, 0, <<"t","_","m","a","p","p","i","n","g","(","t","_","a","d","d","r","e","s","s",",">> \o PersonType \o <<")">>),
        Var(<<"p","e","o","p","l","e">>, <<"9">>, 0, <<"t","_","a","r","r","a","y","(">> \o PersonType \o <<")","d","y","n","_","s","t","o","r","a","g","e">>),
        Var(<<"n","e","s","t","e","d","M","a","p","p","i","n","g">>, <<"1","0">>, 0, <<"t","_","m","a","p","p","i","n","g","(","t","_","a","d","d","r","e","s","s",",","t","_","m","a","p","p","i","n","g","(","t","_","u","i","n","t","2","5","6",",","t","_","b","o","o","l",")",")">>) >>,
   types |->
     << Ty(<<"t","_","a","d","d","r","e","s","s">>, <<"a","d","d","r","e","s","s">>, <<"2","0">>, <<>>),
        Ty(<<"t","_","a","r","r","a","y","(">> \o PersonType \o <<")","d","y","n","_","s","t","o","r","a","g","e">>, <<"s","t","r","u","c","t"," ","T","e","s","t","C","o","n","t","r","a","c","t",".","P","e","r","s","o","n","[","]">>,
           <<"3","2">>, <<>>),
        Ty(<<"t","_","a","r","r","a","y","(","t","_","u","i","n","t","2","5","6",")","d","y","n","_","s","t","o","r","a","g","e">>, <<"u","i","n","t","2","5","6","[","]">>, <<"3","2">>, <<>>),
        Ty(<<"t","_","b","o","o","l">>, <<"b","o","o","l">>, <<"1">>, <<>>),
        Ty(<<"t","_","m","a","p","p","i","n","g","(","t","_","a","d","d","r","e","s","s",",">> \o PersonType \o <<")">>,
           <<"m","a","p","p","i","n","g","(","a","d","d","r","e","s","s"," ","=",">"," ","s","t","r","u","c","t"," ","T","e","s","t","C","o","n","t","r","a","c","t",".","P","e","r","s","o","n",")">>, <<"3","2">>, <<>>),
        Ty(<<"t","_","m","a","p","p","i","n","g","(","t","_","a","d","d","r","e","s","s",",","t","_","m","a","p","p","i","n","g","(","t","_","u","i","n","t","2","5","6",",","t","_","b","o","o","l",")",")">>,
           <<"m","a","p","p","i","n","g","(","a","d","d","r","e","s","s"," ","=",">"," ","m","a","p","p","i","n","g","(","u","i","n","t","2","5","6"," ","=",">"," ","b","o","o","l",")",")">>, <<"3","2">>, <<>>),
        Ty(<<"t","_","m","a","p","p","i","n","g","(","t","_","u","i","n","t","2","5","6",",","t","_","b","o","o","l",")">>, <<"m","a","p","p","i","n","g","(","u","i","n","t","2","5","6"," ","=",">"," ","b","o","o","l",")">>, <<"3","2">>, <<>>),
        Ty(<<"t","_","m","a","p","p","i","n","g","(","t","_","u","i","n","t","2","5","6",",","t","_","s","t","r","i","n","g","_","s","t","o","r","a","g","e",")">>, <<"m","a","p","p","i","n","g","(","u","i","n","t","2","5","6"," ","=",">"," ","s","t","r","i","n","g",")">>, <<"3","2">>,
           <<>>),
        Ty(<<"t","_","s","t","r","i","n","g","_","s","t","o","r","a","g","e">>, <<"s","t","r","i","n","g">>, <<"3","2">>, <<>>),
        Ty(PersonType, <<"s","t","r","u","c","t"," ","T","e","s","t","C","o","n","t","r","a","c","t",".","P","e","r","s","o","n">>, <<"9","6">>, PersonMembers),
        Ty(<<"t","_","u","i","n","t","2","5","6">>, <<"u","i","n","t","2","5","6">>, <<"3","2">>, <<>>) >>]

TokenInfoType == <<"t","_","s","t","r","u","c","t","(","T","o","k","e","n","I","n","f","o",")","7","0","_","s","t","o","r","a","g","e">>

TokenInfoMembers ==
  << Var(<<"t","o","k","e","n","N","a","m","e">>, <<"0">>, 0, <<"t","_","s","t","r","i","n","g","_","s","t","o","r","a","g","e">>),
     Var(<<"t","o","k","e","n","A","d","d","r","e","s","s">>, <<"1">>, 0, <<"t","_","a","d","d","r","e","s","s">>),
     Var(<<"t","o","k","e","n","T","y","p","e">>, <<"1">>, 20, <<"t","_","e","n","u","m","(","T","o","k","e","n","T","y","p","e",")","5","8">>),
     Var(<<"d","e","c","i","m","a","l","s">>, <<"1">>, 21, <<"t","_","u","i","n","t","8">>),
     Var(<<"s","u","p","p","o","r","t","e","d">>, <<"1">>, 22, <<"t","_","b","o","o","l">>) >>

TokenVaultLayout ==
  [storage |->
     << Var(<<"a","d","m","i","n">>, <<"0">>, 0, <<"t","_","a","d","d","r","e","s","s">>),
        Var(<<"o","p","e","r","a","t","o","r","s">>, <<"1">>, 0, <<"t","_","m","a","p","p","i","n","g","(","t","_","a","d","d","r","e","s","s",",","t","_","b","o","o","l",")">>),
        Var(<<"u","s","e","r","A","c","c","e","s","s","L","e","v","e","l","s">>, <<"2">>, 0, <<"t","_","m","a","p","p","i","n","g","(","t","_","a","d","d","r","e","s","s",",","t","_","e","n","u","m","(","A","c","c","e","s","s","L","e","v","e","l",")","8",")">>),
        Var(<<"f","u","n","c","t","i","o","n","A","c","c","e","s","s">>, <<"3">>, 0, <<"t","_","m","a","p","p","i","n","g","(","t","_","a","d","d","r","e","s","s",",","t","_","m","a","p","p","i","n","g","(","t","_","b","y","t","e","s","4",",","t","_","b","o","o","l",")",")">>),
        Var(<<"n","a","m","e">>, <<"4">>, 0, <<"t","_","s","t","r","i","n","g","_","s","t","o","r","a","g","e">>),
        Var(<<"p","a","u","s","e","d">>, <<"5">>, 0, <<"t","_","b","o","o","l">>),
        Var(<<"t","o","t","a","l","T","o","k","e","n","s","S","t","o","r","e","d">>, <<"6">>, 0, <<"t","_","u","i","n","t","2","5","6">>),
        Var(<<"t","o","p","U","s","e","r","s">>, <<"7">>, 0, <<"t","_","a","r","r","a","y","(","t","_","a","d","d","r","e","s","s",")","5","_","s","t","o","r","a","g","e">>),
        Var(<<"t","o","k","e","n","S","y","m","b","o","l","s">>, <<"1","2">>, 0, <<"t","_","a","r","r","a","y","(","t","_","s","t","r","i","n","g","_","s","t","o","r","a","g","e",")","d","y","n","_","s","t","o","r","a","g","e">>),
        Var(<<"s","u","p","p","o","r","t","e","d","T","o","k","e","n","s">>, <<"1","3">>, 0,
            <<"t","_","m","a","p","p","i","n","g","(","t","_","s","t","r","i","n","g","_","m","e","m","o","r","y","_","p","t","r",",">> \o TokenInfoType \o <<")">>),
        Var(<<"p","r","o","j","e","c","t","C","o","n","t","r","i","b","u","t","o","r","s">>, <<"1","4">>, 0,
            <<"t","_","m","a","p","p","i","n","g","(","t","_","u","i","n","t","2","5","6",",","t","_","a","r","r","a","y","(","t","_","a","d","d","r","e","s","s",")","5","_","s","t","o","r","a","g","e",")">>) >>,
   types |->
     << Ty(<<"t","_","a","d","d","r","e","s","s">>, <<"a","d","d","r","e","s","s">>, <<"2","0">>, <<>>),
        Ty(<<"t","_","a","r","r","a","y","(","t","_","a","d","d","r","e","s","s",")","5","_","s","t","o","r","a","g","e">>, <<"a","d","d","r","e","s","s","[","5","]">>, <<"1","6","0">>, <<>>),
        Ty(<<"t","_","a","r","r","a","y","(","t","_","s","t","r","i","n","g","_","s","t","o","r","a","g","e",")","d","y","n","_","s","t","o","r","a","g","e">>, <<"s","t","r","i","n","g","[","]">>, <<"3","2">>, <<>>),
        Ty(<<"t","_","b","o","o","l">>, <<"b","o","o","l">>, <<"1">>, <<>>),
        Ty(<<"t","_","b","y","t","e","s","4">>, <<"b","y","t","e","s","4">>, <<"4">>, <<>>),
        Ty(<<"t","_","e","n","u","m","(","A","c","c","e","s","s","L","e","v","e","l",")","8">>, <<"e","n","u","m"," ","A","c","c","e","s","s","C","o","n","t","r","o","l",".","A","c","c","e","s","s","L","e","v","e","l">>, <<"1">>, <<>>),
        Ty(<<"t","_","e","n","u","m","(","T","o","k","e","n","T","y","p","e",")","5","8">>, <<"e","n","u","m"," ","T","o","k","e","n","V","a","u","l","t",".","T","o","k","e","n","T","y","p","e">>, <<"1">>, <<>>),
        Ty(<<"t","_","m","a","p","p","i","n","g","(","t","_","a","d","d","r","e","s","s",",","t","_","b","o","o","l",")">>, <<"m","a","p","p","i","n","g","(","a","d","d","r","e","s","s"," ","=",">"," ","b","o","o","l",")">>, <<"3","2">>, <<>>),
        Ty(<<"t","_","m","a","p","p","i","n","g","(","t","_","a","d","d","r","e","s","s",",","t","_","e","n","u","m","(","A","c","c","e","s","s","L","e","v","e","l",")","8",")">>,
           <<"m","a","p","p","i","n","g","(","a","d","d","r","e","s","s"," ","=",">"," ","e","n","u","m"," ","A","c","c","e","s","s","C","o","n","t","r","o","l",".","A","c","c","e","s","s","L","e","v","e","l",")">>, <<"3","2">>, <<>>),
        Ty(<<"t","_","m","a","p","p","i","n","g","(","t","_","a","d","d","r","e","s","s",",","t","_","m","a","p","p","i","n","g","(","t","_","b","y","t","e","s","4",",","t","_","b","o","o","l",")",")">>,
           <<"m","a","p","p","i","n","g","(","a","d","d","r","e","s","s"," ","=",">"," ","m","a","p","p","i","n","g","(","b","y","t","e","s","4"," ","=",">"," ","b","o","o","l",")",")">>, <<"3","2">>, <<>>),
        Ty(<<"t","_","m","a","p","p","i","n","g","(","t","_","b","y","t","e","s","4",",","t","_","b","o","o","l",")">>, <<"m","a","p","p","i","n","g","(","b","y","t","e","s","4"," ","=",">"," ","b","o","o","l",")">>, <<"3","2">>, <<>>),
        Ty(<<"t","_","m","a","p","p","i","n","g","(","t","_","s","t","r","i","n","g","_","m","e","m","o","r","y","_","p","t","r",",">> \o TokenInfoType \o <<")">>,
           <<"m","a","p","p","i","n","g","(","s","t","r","i","n","g"," ","=",">"," ","s","t","r","u","c","t"," ","T","o","k","e","n","V","a","u","l","t",".","T","o","k","e","n","I","n","f","o",")">>, <<"3","2">>, <<>>),
        Ty(<<"t","_","m","a","p","p","i","n","g","(","t","_","u","i","n","t","2","5","6",",","t","_","a","r","r","a","y","(","t","_","a","d","d","r","e","s","s",")","5","_","s","t","o","r","a","g","e",")">>,
           <<"m","a","p","p","i","n","g","(","u","i","n","t","2","5","6"," ","=",">"," ","a","d","d","r","e","s","s","[","5","]",")">>, <<"3","2">>, <<>>),
        Ty(<<"t","_","s","t","r","i","n","g","_","m","e","m","o","r","y","_","p","t","r">>, <<"s","t","r","i","n","g">>, <<"3","2">>, <<>>),
        Ty(<<"t","_","s","t","r","i","n","g","_","s","t","o","r","a","g","e">>, <<"s","t","r","i","n","g">>, <<"3","2">>, <<>>),
        Ty(TokenInfoType, <<"s","t","r","u","c","t"," ","T","o","k","e","n","V","a","u","l","t",".","T","o","k","e","n","I","n","f","o">>, <<"6","4">>, TokenInfoMembers),
        Ty(<<"t","_","u","i","n","t","2","5","6">>, <<"u","i","n","t","2","5","6">>, <<"3","2">>, <<>>),
        Ty(<<"t","_","u","i","n","t","8">>, <<"u","i","n","t","8">>, <<"1">>, <<>>) >>]

AccountType == <<"t","_","s","t","r","u","c","t","(","A","c","c","o","u","n","t",")","3","1","_","s","t","o","r","a","g","e">>

AccountMembers ==
  << Var(<<"b","a","l","a","n","c","e">>, <<"0">>, 0, <<"t","_","u","i","n","t","2","5","6">>),
     Var(<<"n","o","n","c","e">>, <<"1">>, 0, <<"t","_","u","i","n","t","6","4">>),
     Var(<<"f","r","o","z","e","n">>, <<"1">>, 8, <<"t","_","b","o","o","l">>) >>

LedgerLayout ==
  [storage |->
     << Var(<<"l","e","v","e","l">>, <<"0">>, 0, <<"t","_","u","i","n","t","8">>),
        Var(<<"o","w","n","e","r">>, <<"0">>, 1, <<"t","_","a","d","d","r","e","s","s">>),
        Var(<<"f","e","e">>, <<"0">>, 21, <<"t","_","u","i","n","t","1","6">>),
        Var(<<"q","u","o","t","a">>, <<"1">>, 0, <<"t","_","u","i","n","t","8","0">>),
        Var(<<"t","o","t","a","l">>, <<"2">>, 0, <<"t","_","u","i","n","t","2","5","6">>),
        Var(<<"b","a","l","a","n","c","e","s">>, <<"3">>, 0, <<"t","_","m","a","p","p","i","n","g","(","t","_","a","d","d","r","e","s","s",",","t","_","u","i","n","t","2","5","6",")">>),
        Var(<<"a","l","l","o","w","a","n","c","e","s">>, <<"4">>, 0, <<"t","_","m","a","p","p","i","n","g","(","t","_","a","d","d","r","e","s","s",",","t","_","m","a","p","p","i","n","g","(","t","_","a","d","d","r","e","s","s",",","t","_","u","i","n","t","2","5","6",")",")">>),
        Var(<<"f","l","a","g","s">>, <<"5">>, 0, <<"t","_","m","a","p","p","i","n","g","(","t","_","b","o","o","l",",","t","_","u","i","n","t","2","5","6",")">>),
        Var(<<"d","e","l","t","a","s">>, <<"6">>, 0, <<"t","_","m","a","p","p","i","n","g","(","t","_","i","n","t","2","5","6",",","t","_","u","i","n","t","2","5","6",")">>),
        Var(<<"n","a","m","e","s">>, <<"7">>, 0, <<"t","_","m","a","p","p","i","n","g","(","t","_","s","t","r","i","n","g","_","m","e","m","o","r","y","_","p","t","r",",","t","_","u","i","n","t","2","5","6",")">>),
        Var(<<"a","c","c","o","u","n","t","s">>, <<"8">>, 0, <<"t","_","m","a","p","p","i","n","g","(","t","_","a","d","d","r","e","s","s",",">> \o AccountType \o <<")">>),
        Var(<<"s","t","a","t","u","s","e","s">>, <<"9">>, 0,
            <<"t","_","m","a","p","p","i","n","g","(","t","_","a","d","d","r","e","s","s",",","t","_","m","a","p","p","i","n","g","(","t","_","u","i","n","t","2","5","6",",","t","_","e","n","u","m","(","S","t","a","t","u","s",")","1","2",")",")">>),
        Var(<<"q","u","e","u","e">>, <<"1","0">>, 0, <<"t","_","a","r","r","a","y","(","t","_","u","i","n","t","2","5","6",")","d","y","n","_","s","t","o","r","a","g","e">>),
        Var(<<"h","i","s","t","o","r","y">>, <<"1","1">>, 0, <<"t","_","a","r","r","a","y","(","t","_","u","i","n","t","2","5","6",")","5","_","s","t","o","r","a","g","e">>),
        Var(<<"i","n","f","o">>, <<"1","6">>, 0, AccountType),
        Var(<<"t","a","b","l","e">>, <<"1","8">>, 0, <<"t","_","a","r","r","a","y","(","t","_","u","i","n","t","2","5","6",")","1","2","0","0","_","s","t","o","r","a","g","e">>),
        Var(<<"l","a","t","e">>, <<"1","2","1","8">>, 0, <<"t","_","m","a","p","p","i","n","g","(","t","_","a","d","d","r","e","s","s",",","t","_","u","i","n","t","2","5","6",")">>),
        Var(<<"t","i","t","l","e">>, <<"1","2","1","9">>, 0, <<"t","_","s","t","r","i","n","g","_","s","t","o","r","a","g","e">>) >>,
   types |->
     << Ty(<<"t","_","a","d","d","r","e","s","s">>, <<"a","d","d","r","e","s","s">>, <<"2","0">>, <<>>),
        Ty(<<"t","_","a","r","r","a","y","(","t","_","u","i","n","t","2","5","6",")","1","2","0","0","_","s","t","o","r","a","g","e">>, <<"u","i","n","t","2","5","6","[","1","2","0","0","]">>, <<"3","8","4","0","0">>, <<>>),
        Ty(<<"t","_","a","r","r","a","y","(","t","_","u","i","n","t","2","5","6",")","5","_","s","t","o","r","a","g","e">>, <<"u","i","n","t","2","5","6","[","5","]">>, <<"1","6","0">>, <<>>),
        Ty(<<"t","_","a","r","r","a","y","(","t","_","u","i","n","t","2","5","6",")","d","y","n","_","s","t","o","r","a","g","e">>, <<"u","i","n","t","2","5","6","[","]">>, <<"3","2">>, <<>>),
        Ty(<<"t","_","b","o","o","l">>, <<"b","o","o","l">>, <<"1">>, <<>>),
        Ty(<<"t","_","e","n","u","m","(","S","t","a","t","u","s",")","1","2">>, <<"e","n","u","m"," ","L","e","d","g","e","r",".","S","t","a","t","u","s">>, <<"1">>, <<>>),
        Ty(<<"t","_","i","n","t","2","5","6">>, <<"i","n","t","2","5","6">>, <<"3","2">>, <<>>),
        Ty(<<"t","_","m","a","p","p","i","n","g","(","t","_","a","d","d","r","e","s","s",",">> \o AccountType \o <<")">>,
           <<"m","a","p","p","i","n","g","(","a","d","d","r","e","s","s"," ","=",">"," ","s","t","r","u","c","t"," ","L","e","d","g","e","r",".","A","c","c","o","u","n","t",")">>, <<"3","2">>, <<>>),
        Ty(<<"t","_","m","a","p","p","i","n","g","(","t","_","a","d","d","r","e","s","s",",","t","_","m","a","p","p","i","n","g","(","t","_","a","d","d","r","e","s","s",",","t","_","u","i","n","t","2","5","6",")",")">>,
           <<"m","a","p","p","i","n","g","(","a","d","d","r","e","s","s"," ","=",">"," ","m","a","p","p","i","n","g","(","a","d","d","r","e","s","s"," ","=",">"," ","u","i","n","t","2","5","6",")",")">>, <<"3","2">>, <<>>),
        Ty(<<"t","_","m","a","p","p","i","n","g","(","t","_","a","d","d","r","e","s","s",",","t","_","m","a","p","p","i","n","g","(","t","_","u","i","n","t","2","5","6",",","t","_","e","n","u","m","(","S","t","a","t","u","s",")","1","2",")",")">>,
           <<"m","a","p","p","i","n","g","(","a","d","d","r","e","s","s"," ","=",">"," ","m","a","p","p","i","n","g","(","u","i","n","t","2","5","6"," ","=",">"," ","e","n","u","m"," ","L","e","d","g","e","r",".","S","t","a","t","u","s",")",")">>, <<"3","2">>, <<>>),
        Ty(<<"t","_","m","a","p","p","i","n","g","(","t","_","a","d","d","r","e","s","s",",","t","_","u","i","n","t","2","5","6",")">>, <<"m","a","p","p","i","n","g","(","a","d","d","r","e","s","s"," ","=",">"," ","u","i","n","t","2","5","6",")">>, <<"3","2">>, <<>>),
        Ty(<<"t","_","m","a","p","p","i","n","g","(","t","_","b","o","o","l",",","t","_","u","i","n","t","2","5","6",")">>, <<"m","a","p","p","i","n","g","(","b","o","o","l"," ","=",">"," ","u","i","n","t","2","5","6",")">>, <<"3","2">>, <<>>),
        Ty(<<"t","_","m","a","p","p","i","n","g","(","t","_","i","n","t","2","5","6",",","t","_","u","i","n","t","2","5","6",")">>, <<"m","a","p","p","i","n","g","(","i","n","t","2","5","6"," ","=",">"," ","u","i","n","t","2","5","6",")">>, <<"3","2">>, <<>>),
        Ty(<<"t","_","m","a","p","p","i","n","g","(","t","_","s","t","r","i","n","g","_","m","e","m","o","r","y","_","p","t","r",",","t","_","u","i","n","t","2","5","6",")">>, <<"m","a","p","p","i","n","g","(","s","t","r","i","n","g"," ","=",">"," ","u","i","n","t","2","5","6",")">>,
           <<"3","2">>, <<>>),
        Ty(<<"t","_","m","a","p","p","i","n","g","(","t","_","u","i","n","t","2","5","6",",","t","_","e","n","u","m","(","S","t","a","t","u","s",")","1","2",")">>,
           <<"m","a","p","p","i","n","g","(","u","i","n","t","2","5","6"," ","=",">"," ","e","n","u","m"," ","L","e","d","g","e","r",".","S","t","a","t","u","s",")">>, <<"3","2">>, <<>>),
        Ty(<<"t","_","s","t","r","i","n","g","_","m","e","m","o","r","y","_","p","t","r">>, <<"s","t","r","i","n","g">>, <<"3","2">>, <<>>),
        Ty(<<"t","_","s","t","r","i","n","g","_","s","t","o","r","a","g","e">>, <<"s","t","r","i","n","g">>, <<"3","2">>, <<>>),
        Ty(AccountType, <<"s","t","r","u","c","t"," ","L","e","d","g","e","r",".","A","c","c","o","u","n","t">>, <<"6","4">>, AccountMembers),
        Ty(<<"t","_","u","i","n","t","1","6">>, <<"u","i","n","t","1","6">>, <<"2">>, <<>>),
        Ty(<<"t","_","u","i","n","t","2","5","6">>, <<"u","i","n","t","2","5","6">>, <<"3","2">>, <<>>),
        Ty(<<"t","_","u","i","n","t","6","4">>, <<"u","i","n","t","6","4">>, <<"8">>, <<>>),
        Ty(<<"t","_","u","i","n","t","8">>, <<"u","i","n","t","8">>, <<"1">>, <<>>),
        Ty(<<"t","_","u","i","n","t","8","0">>, <<"u","i","n","t","8","0">>, <<"1","0">>, <<>>) >>]

\* A layout file whose type map lacks the type of a variable.
PartialLayout ==
  [storage |->
     << Var(<<"c","o","u","n","t">>, <<"0">>, 0, <<"t","_","u","i","n","t","2","5","6">>),
        Var(<<"g","h","o","s","t">>, <<"1">>, 0, <<"t","_","u","i","n","t","3","2">>) >>,
   types |-> << Ty(<<"t","_","u","i","n","t","2","5","6">>, <<"u","i","n","t","2","5","6">>, <<"3","2">>, <<>>) >>]

\* A layout with arrays of arrays, uint256[][3] rows and uint256[3][2] board, a
\* mapping of three levels and a mapping to arrays of structs.
GridLayout ==
  [storage |->
     << Var(<<"r","o","w","s">>, <<"0">>, 0, <<"t","_","a","r","r","a","y","(","t","_","a","r","r","a","y","(","t","_","u","i","n","t","2","5","6",")","d","y","n","_","s","t","o","r","a","g","e",")","3","_","s","t","o","r","a","g","e">>),
        Var(<<"b","o","a","r","d">>, <<"3">>, 0, <<"t","_","a","r","r","a","y","(","t","_","a","r","r","a","y","(","t","_","u","i","n","t","2","5","6",")","3","_","s","t","o","r","a","g","e",")","2","_","s","t","o","r","a","g","e">>),
        Var(<<"v","o","t","e","s">>, <<"9">>, 0,
            <<"t","_","m","a","p","p","i","n","g","(","t","_","a","d","d","r","e","s","s",",","t","_","m","a","p","p","i","n","g","(","t","_","a","d","d","r","e","s","s",",","t","_","m","a","p","p","i","n","g","(","t","_","u","i","n","t","2","5","6",",","t","_","u","i","n","t","2","5","6",")",")",")">>),
        Var(<<"t","e","a","m","s">>, <<"1","0">>, 0, <<"t","_","m","a","p","p","i","n","g","(","t","_","u","i","n","t","2","5","6",",","t","_","a","r","r","a","y","(">> \o AccountType
                                  \o <<")","d","y","n","_","s","t","o","r","a","g","e",")">>) >>,
   types |->
     << Ty(<<"t","_","a","d","d","r","e","s","s">>, <<"a","d","d","r","e","s","s">>, <<"2","0">>, <<>>),
        Ty(<<"t","_","a","r","r","a","y","(","t","_","a","r","r","a","y","(","t","_","u","i","n","t","2","5","6",")","3","_","s","t","o","r","a","g","e",")","2","_","s","t","o","r","a","g","e">>, <<"u","i","n","t","2","5","6","[","3","]","[","2","]">>, <<"1","9","2">>, <<>>),
        Ty(<<"t","_","a","r","r","a","y","(","t","_","a","r","r","a","y","(","t","_","u","i","n","t","2","5","6",")","d","y","n","_","s","t","o","r","a","g","e",")","3","_","s","t","o","r","a","g","e">>, <<"u","i","n","t","2","5","6","[","]","[","3","]">>, <<"9","6">>, <<>>),
        Ty(<<"t","_","a","r","r","a","y","(","t","_","u","i","n","t","2","5","6",")","3","_","s","t","o","r","a","g","e">>, <<"u","i","n","t","2","5","6","[","3","]">>, <<"9","6">>, <<>>),
        Ty(<<"t","_","a","r","r","a","y","(","t","_","u","i","n","t","2","5","6",")","d","y","n","_","s","t","o","r","a","g","e">>, <<"u","i","n","t","2","5","6","[","]">>, <<"3","2">>, <<>>),
        Ty(<<"t","_","a","r","r","a","y","(">> \o AccountType \o <<")","d","y","n","_","s","t","o","r","a","g","e">>, <<"s","t","r","u","c","t"," ","L","e","d","g","e","r",".","A","c","c","o","u","n","t","[","]">>,
           <<"3","2">>, <<>>),
        Ty(<<"t","_","b","o","o","l">>, <<"b","o","o","l">>, <<"1">>, <<>>),
        Ty(<<"t","_","m","a","p","p","i","n","g","(","t","_","a","d","d","r","e","s","s",",","t","_","m","a","p","p","i","n","g","(","t","_","a","d","d","r","e","s","s",",","t","_","m","a","p","p","i","n","g","(","t","_","u","i","n","t","2","5","6",",","t","_","u","i","n","t","2","5","6",")",")",")">>,
           <<"m","a","p","p","i","n","g","(","a","d","d","r","e","s","s"," ","=",">"," ","m","a","p","p","i","n","g","(","a","d","d","r","e","s","s"," ","=",">"," ","m","a","p","p","i","n","g","(","u","i","n","t","2","5","6"," ","=",">"," ","u","i","n","t","2","5","6",")",")",")">>, <<"3","2">>,
           <<>>),
        Ty(<<"t","_","m","a","p","p","i","n","g","(","t","_","a","d","d","r","e","s","s",",","t","_","m","a","p","p","i","n","g","(","t","_","u","i","n","t","2","5","6",",","t","_","u","i","n","t","2","5","6",")",")">>,
           <<"m","a","p","p","i","n","g","(","a","d","d","r","e","s","s"," ","=",">"," ","m","a","p","p","i","n","g","(","u","i","n","t","2","5","6"," ","=",">"," ","u","i","n","t","2","5","6",")",")">>, <<"3","2">>, <<>>),
        Ty(<<"t","_","m","a","p","p","i","n","g","(","t","_","u","i","n","t","2","5","6",",","t","_","a","r","r","a","y","(">> \o AccountType \o <<")","d","y","n","_","s","t","o","r","a","g","e",")">>,
           <<"m","a","p","p","i","n","g","(","u","i","n","t","2","5","6"," ","=",">"," ","s","t","r","u","c","t"," ","L","e","d","g","e","r",".","A","c","c","o","u","n","t","[","]",")">>, <<"3","2">>, <<>>),
        Ty(<<"t","_","m","a","p","p","i","n","g","(","t","_","u","i","n","t","2","5","6",",","t","_","u","i","n","t","2","5","6",")">>, <<"m","a","p","p","i","n","g","(","u","i","n","t","2","5","6"," ","=",">"," ","u","i","n","t","2","5","6",")">>, <<"3","2">>, <<>>),
        Ty(AccountType, <<"s","t","r","u","c","t"," ","L","e","d","g","e","r",".","A","c","c","o","u","n","t">>, <<"6","4">>, AccountMembers),
        Ty(<<"t","_","u","i","n","t","2","5","6">>, <<"u","i","n","t","2","5","6">>, <<"3","2">>, <<>>),
        Ty(<<"t","_","u","i","n","t","6","4">>, <<"u","i","n","t","6","4">>, <<"8">>, <<>>) >>]

\* loadStorageLayout(contractName): <<layout>>, or <<>> when it throws.
loadStorageLayout(contractName) ==
  IF contractName = "TestContract" THEN <<TestContractLayout>>
  ELSE IF contractName = "TokenVault" THEN <<TokenVaultLayout>>
  ELSE IF contractName = "Ledger" THEN <<LedgerLayout>>
  ELSE IF contractName = "Partial" THEN <<PartialLayout>>
  ELSE IF contractName = "Grid" THEN <<GridLayout>>
  ELSE <<>>

(***************************************************************************)
(* The state.                                                              *)
(*   storage  the backend's words: [address, slot number] -> 64 hex digits *)
(*   calls    per caller, the setState call in progress                    *)
(*   started  the number of setState calls started                         *)
(*   written  the cells that successful calls resolved and wrote           *)
(*   rq, rs   the request and result of a resolution on its own            *)
(***************************************************************************)
VARIABLES storage, calls, started, written, rq, rs

vars == <<storage, calls, started, written, rq, rs>>

Callers == {"A", "B"}

MaxCalls == 2

MaxIndex == 2

Addr1 == <<"0","x">> \o PadStart(<<"1">>, 40, "0")

AddrAB == <<"0","x">> \o PadStart(<<"A","B">>, 40, "0")

\* The deployed address of each contract.
AddressOf(contractName) ==
  IF contractName = "TestContract" THEN <<"0","x">> \o PadStart(<<"c","1">>, 40, "0")
  ELSE IF contractName = "TokenVault" THEN <<"0","x">> \o PadStart(<<"c","2">>, 40, "0")
  ELSE <<"0","x">> \o PadStart(<<"c","3">>, 40, "0")

Request(contractName, varName, path, value) ==
  [contractName |-> contractName, varName |-> varName, path |-> path, value |-> value,
   contractAddress |-> AddressOf(contractName)]

\* A location or an error, with every field present.
Outcome(r) ==
  IF r.ok
    THEN [ok |-> TRUE, err |-> "", names |-> <<>>, slot |-> r.v.slot,
          offset |-> r.v.offset, size |-> r.v.size, type |-> r.v.type]
    ELSE [ok |-> FALSE, err |-> r.err, names |-> r.names, slot |-> PlainStr(<<>>),
          offset |-> <<>>, size |-> 0, type |-> <<>>]

NoOutcome == Outcome(Throw(""))

\* The layouts of the storage-layouts directory that the ambient hre reads.
HreLayouts == <<TestContractLayout, TokenVaultLayout, LedgerLayout>>

(***************************************************************************)
(* The backend (hre.network.provider): eth_getStorageAt and                *)
(* hardhat_setStorageAt on the words of a contract.                        *)
(***************************************************************************)
\* The slot number the backend reads from a slot string: [ok, v].
BackendSlot(slot) ==
  IF StrStartsWith0x(slot) /\ (slot.big # <<>> \/ IsHexDigits(Slice(slot.cs, 2)))
    THEN StrBigInt(slot)
    ELSE [ok |-> FALSE, v |-> Num(0)]

\* The data the backend accepts: '0x' and exactly 32 bytes.
IsWordData(data) == IsHexLiteral(data) /\ Len(data) = HexWordDigits + 2

Cell(address, slotNumber) == [address |-> address, slot |-> slotNumber]

WordAt(st, cell) == IF cell \in DOMAIN st THEN st[cell] ELSE Repeat("0", HexWordDigits)

\* Slot 0 of Ledger holds level = 0x11, owner = 0x..22 (20 bytes) and fee = 0x3344;
\* slot 1 of TestContract holds simpleBool = true and simpleAddress.
InitialStorage ==
  (Cell(AddressOf("Ledger"), Num(0)) :>
     PadStart(<<"3","3","4","4">> \o Repeat("2", 40) \o <<"1","1">>, HexWordDigits, "0"))
  @@ (Cell(AddressOf("TestContract"), Num(1)) :>
     PadStart(<<"1","2","3","4","5","6","7","8","9","0","1","2","3","4","5","6","7","8","9","0","1","2","3","4","5","6","7","8","9","0","1","2","3","4","5","6","7","8","9","0">> \o <<"0","1">>, HexWordDigits, "0"))
  @@ (Cell(AddressOf("Ledger"), Num(2)) :> PadStart(<<"6","4">>, HexWordDigits, "0"))

(***************************************************************************)
(* setState (index.ts) with setSlotValue and setPartialSlotValue           *)
(* (slot-utils.ts), cut at their awaits.                                   *)
(***************************************************************************)
LongString == Repeat("a", MaxShortString + 1)

\* The calls the callers make.
SetStateRequests ==
  { Request("Ledger", <<"l","e","v","e","l">>, <<>>, NumberValue(7)),
    Request("Ledger", <<"o","w","n","e","r">>, <<>>, StringValue(AddrAB)),
    Request("Ledger", <<"f","e","e">>, <<>>, NumberValue(300)),
    Request("Ledger", <<"t","o","t","a","l">>, <<>>, NumberValue(500)),
    Request("Ledger", <<"t","o","t","a","l">>, <<>>, StringValue(<<"a","b","c">>)),
    Request("Ledger", <<"b","a","l","a","n","c","e","s">>, <<Addr1>>, NumberValue(500)),
    Request("Ledger", <<"m","i","s","s","i","n","g">>, <<>>, NumberValue(1)),
    Request("Ledger", <<"i","n","f","o">>, <<<<"m","i","s","s","i","n","g">>>>, NumberValue(1)),
    Request("Ledger", <<"t","o","t","a","l">>, <<<<"0">>>>, NumberValue(1)),
    Request("Ledger", <<"t","i","t","l","e">>, <<>>, StringValue(LongString)),
    Request("Ledger", <<"t","i","t","l","e">>, <<>>, StringValue(<<"H","e","l","l","o">>)),
    Request("TestContract", <<"s","i","m","p","l","e","B","o","o","l">>, <<>>, BooleanValue(FALSE)) }

NoRequest == Request("", <<>>, <<>>, NumberValue(0))

\* read is the currentValue that eth_getStorageAt answered (<<>> before), caught
\* the message of the error that the catch of setState caught ("" when none was
\* thrown), result the value that setState returns.
IdleCall ==
  [pc |-> "idle", req |-> NoRequest, loc |-> NoOutcome, data |-> <<>>,
   slot |-> PlainStr(<<>>), ops |-> <<>>, read |-> <<>>, caught |-> "", result |-> FALSE]

Op(name, address, slot) == [op |-> name, address |-> address, slot |-> slot]

\* The call ends: setState returns result.
Finish(call, result) == [call EXCEPT !.pc = "done", !.result = result]

\* setState is called and runs to the await of loadStorageLayout.
Start(c) ==
  /\ calls[c].pc = "idle"
  /\ started < MaxCalls
  /\ \E req \in SetStateRequests :
       calls' = [calls EXCEPT ![c] = [IdleCall EXCEPT !.pc = "loading", !.req = req]]
  /\ started' = started + 1
  /\ UNCHANGED <<storage, written, rq, rs>>

\* The call with its first backend request sent.
Sent(call, pc, name, data, slot) ==
  [call EXCEPT !.pc = pc, !.data = data, !.slot = slot,
               !.ops = <<Op(name, call.req.contractAddress, slot)>>]

\* Every cell that has an offset, 0 included, is written through setPartialSlotValue.
HasOffset(offset) == offset # <<>>

\* location.offset !== undefined && location.offset > 0
IsPartial(offset) == offset # <<>> /\ offset[1] > 0

\* The call as setSlotValue leaves it at its first await: the value is encoded, the
\* slot formatted and the first backend request sent; or an error was thrown.
setSlotValue(call, encodedValue, formattedSlot, offset) ==
  IF ~encodedValue.ok THEN Finish([call EXCEPT !.caught = encodedValue.err], FALSE)
  ELSE IF IsPartial(offset)
    THEN Sent(call, "get", "eth_getStorageAt", encodedValue.v, formattedSlot)
    ELSE Sent(call, "set", "hardhat_setStorageAt", encodedValue.v, formattedSlot)

\* setState from the outcome of getStorageLocation on.
LocatedAt(call, location) ==
  IF ~location.ok
    THEN Finish([call EXCEPT !.loc = Outcome(location), !.caught = location.err], FALSE)
  ELSE setSlotValue([call EXCEPT !.loc = Outcome(location)],
                    encodeValueForStorage(call.req.value, location.v),
                    formatSlot(location.v.slot), location.v.offset)

\* setState from the loaded layout to the first await of setSlotValue.
Located(call) ==
  LocatedAt(call, getStorageLocation(loadStorageLayout(call.req.contractName),
                                     call.req.varName, call.req.path, HreLayouts))

\* The layout is loaded: getStorageLocation resolves the cell and setSlotValue runs
\* up to its first backend request.
Locate(c) ==
  /\ calls[c].pc = "loading"
  /\ calls' = [calls EXCEPT ![c] = Located(calls[c])]
  /\ UNCHANGED <<storage, started, written, rq, rs>>

\* Merged with the current word and the value taken for each other.
MergedSwapped(call, currentValue) ==
  LET resultHex == MergePartial(call.data, currentValue, call.loc.offset[1], call.loc.size)
      got == [call EXCEPT !.read = currentValue,
                          !.ops = @ \o <<Op("result", call.req.contractAddress,
                                            call.slot)>>]
  IN IF ~resultHex.ok THEN Finish([got EXCEPT !.caught = resultHex.err], FALSE)
     ELSE [got EXCEPT !.pc = "set", !.data = resultHex.v,
                      !.ops = @ \o <<Op("hardhat_setStorageAt", call.req.contractAddress,
                                        call.slot)>>]

\* The call as setPartialSlotValue leaves it once eth_getStorageAt has answered.
Merged(call, currentValue) ==
  LET resultHex == MergePartial(currentValue, call.data, call.loc.offset[1], call.loc.size)
      got == [call EXCEPT !.read = currentValue,
                          !.ops = @ \o <<Op("result", call.req.contractAddress,
                                            call.slot)>>]
  IN IF ~resultHex.ok THEN Finish([got EXCEPT !.caught = resultHex.err], FALSE)
     ELSE [got EXCEPT !.pc = "set", !.data = resultHex.v,
                      !.ops = @ \o <<Op("hardhat_setStorageAt", call.req.contractAddress,
                                        call.slot)>>]

\* The backend answers eth_getStorageAt and setPartialSlotValue sends the merged word.
BackendGet(c) ==
  /\ calls[c].pc = "get"
  /\ BackendSlot(calls[c].slot).ok
  /\ calls' = [calls EXCEPT ![c] =
       Merged(calls[c],
              <<"0","x">> \o WordAt(storage, Cell(calls[c].req.contractAddress,
                                           BackendSlot(calls[c].slot).v)))]
  /\ UNCHANGED <<storage, started, written, rq, rs>>

\* The cell a call resolved: the slot the backend addresses, and the bytes.
WrittenCell(call) ==
  [address |-> call.req.contractAddress, slot |-> BackendSlot(call.slot).v,
   offset |-> IF call.loc.offset = <<>> THEN 0 ELSE call.loc.offset[1],
   size |-> call.loc.size]

\* The bytes [offset, offset + size) of a word, as a hex literal.
FieldOf(data, offset, size) ==
  <<"0","x">> \o SubSeq(Slice(data, 2), HexWordDigits - 2 * (offset + size) + 1,
                  HexWordDigits - 2 * offset)

\* BackendSet of a backend that merges the field of a partial write into the word
\* it holds when the write arrives.
BackendSetMerging(c) ==
  /\ calls[c].pc = "set"
  /\ BackendSlot(calls[c].slot).ok
  /\ IsWordData(calls[c].data)
  /\ storage' = (Cell(calls[c].req.contractAddress, BackendSlot(calls[c].slot).v)
                   :> IF calls[c].read = <<>> THEN ToLower(Slice(calls[c].data, 2))
                      ELSE Slice(MergePartial(
                                   <<"0","x">> \o WordAt(storage,
                                              Cell(calls[c].req.contractAddress,
                                                   BackendSlot(calls[c].slot).v)),
                                   FieldOf(calls[c].data, calls[c].loc.offset[1],
                                           calls[c].loc.size),
                                   calls[c].loc.offset[1], calls[c].loc.size).v, 2))
                 @@ storage
  /\ written' = written \cup {WrittenCell(calls[c])}
  /\ calls' = [calls EXCEPT ![c] = Finish(@, TRUE)]
  /\ UNCHANGED <<started, rq, rs>>

\* The backend stores the word of hardhat_setStorageAt and setState returns true.
BackendSet(c) ==
  /\ calls[c].pc = "set"
  /\ BackendSlot(calls[c].slot).ok
  /\ IsWordData(calls[c].data)
  /\ storage' = (Cell(calls[c].req.contractAddress, BackendSlot(calls[c].slot).v)
                   :> ToLower(Slice(calls[c].data, 2))) @@ storage
  /\ written' = written \cup {WrittenCell(calls[c])}
  /\ calls' = [calls EXCEPT ![c] = Finish(@, TRUE)]
  /\ UNCHANGED <<started, rq, rs>>

\* The error a failing hre.network.provider.send rejects with.
ProviderError == "ProviderError"

\* A backend request fails (the provider rejects it, or it rejects a slot or a word
\* that is malformed): the error is caught by setState, which returns false.
BackendFail(c) ==
  /\ calls[c].pc \in {"get", "set"}
  /\ calls' = [calls EXCEPT ![c] = Finish([@ EXCEPT !.caught = ProviderError], FALSE)]
  /\ UNCHANGED <<storage, started, written, rq, rs>>

\* The caller takes the result.
Return(c) ==
  /\ calls[c].pc = "done"
  /\ calls' = [calls EXCEPT ![c] = IdleCall]
  /\ UNCHANGED <<storage, started, written, rq, rs>>

NoResolution == [pc |-> "none", out |-> NoOutcome, sent |-> PlainStr(<<>>)]

NoResolveRequest == [contractName |-> "", varName |-> <<>>, path |-> <<>>, hre |-> <<>>]

Init ==
  /\ storage = InitialStorage
  /\ calls = [c \in Callers |-> IdleCall]
  /\ started = 0
  /\ written = {}
  /\ rq = NoResolveRequest
  /\ rs = NoResolution

Next ==
  \E c \in Callers :
    \/ Start(c)
    \/ Locate(c)
    \/ BackendGet(c)
    \/ BackendSet(c)
    \/ BackendFail(c)
    \/ Return(c)

Spec == Init /\ [][Next]_vars

(***************************************************************************)
(* Resolution on its own: getStorageLocation (storage-layout.ts) applied   *)
(* to a variable and a path, and formatSlot (slot-utils.ts) applied to the *)
(* slot it returns, with and without an ambient hre.                       *)
(***************************************************************************)
Indices == {IntToString(i, 10) : i \in 0..MaxIndex}

Rq(contractName, varName, path) ==
  [contractName |-> contractName, varName |-> varName, path |-> path]

PathsOf(contractName, varName, paths) == {Rq(contractName, varName, p) : p \in paths}

TestContractRequests ==
  PathsOf("TestContract", <<"s","i","m","p","l","e","U","i","n","t">>, {<<>>})
  \cup PathsOf("TestContract", <<"s","i","m","p","l","e","B","o","o","l">>, {<<>>})
  \cup PathsOf("TestContract", <<"s","i","m","p","l","e","A","d","d","r","e","s","s">>, {<<>>})
  \cup PathsOf("TestContract", <<"p","e","r","s","o","n">>,
               {<<>>, <<<<"n","a","m","e">>>>, <<<<"a","g","e">>>>, <<<<"w","a","l","l","e","t">>>>, <<<<"a","c","t","i","v","e">>>>, <<<<"m","i","s","s","i","n","g">>>>})
  \cup PathsOf("TestContract", <<"u","i","n","t","A","r","r","a","y">>,
               {<<<<"l","e","n","g","t","h">>>>, <<<<".","l","e","n","g","t","h">>>>} \cup {<<i>> : i \in Indices})
  \cup PathsOf("TestContract", <<"s","t","r","i","n","g","M","a","p","p","i","n","g">>, {<<<<"1">>>>, <<<<"a","b","c">>>>})
  \cup PathsOf("TestContract", <<"p","e","r","s","o","n","B","y","A","d","d","r","e","s","s">>,
               {<<Addr1>>, <<Addr1, <<"a","g","e">>>>, <<Addr1, <<"a","c","t","i","v","e">>>>, <<AddrAB, <<"w","a","l","l","e","t">>>>,
                <<Addr1, <<"m","i","s","s","i","n","g">>>>, <<Addr1, <<"a","g","e">>, <<"0">>>>})
  \cup PathsOf("TestContract", <<"p","e","o","p","l","e">>, {<<<<"l","e","n","g","t","h">>>>, <<<<"0">>>>, <<<<"1">>, <<"a","g","e">>>>})
  \cup PathsOf("TestContract", <<"n","e","s","t","e","d","M","a","p","p","i","n","g">>, {<<Addr1>>, <<Addr1, <<"1">>>>})

TokenVaultRequests ==
  PathsOf("TokenVault", <<"a","d","m","i","n">>, {<<>>})
  \cup PathsOf("TokenVault", <<"o","p","e","r","a","t","o","r","s">>, {<<Addr1>>})
  \cup PathsOf("TokenVault", <<"u","s","e","r","A","c","c","e","s","s","L","e","v","e","l","s">>, {<<Addr1>>})
  \cup PathsOf("TokenVault", <<"f","u","n","c","t","i","o","n","A","c","c","e","s","s">>, {<<Addr1, <<"0","x","1","2","3","4","5","6","7","8">>>>})
  \cup PathsOf("TokenVault", <<"t","o","p","U","s","e","r","s">>, {<<<<"1","0","0","0">>>>} \cup {<<i>> : i \in Indices})
  \cup PathsOf("TokenVault", <<"t","o","k","e","n","S","y","m","b","o","l","s">>, {<<<<"l","e","n","g","t","h">>>>, <<<<"0">>>>})
  \cup PathsOf("TokenVault", <<"s","u","p","p","o","r","t","e","d","T","o","k","e","n","s">>,
               {<<<<"E","T","H">>>>, <<<<"E","T","H">>, <<"d","e","c","i","m","a","l","s">>>>, <<<<"E","T","H">>, <<"t","o","k","e","n","A","d","d","r","e","s","s">>>>})
  \cup PathsOf("TokenVault", <<"p","r","o","j","e","c","t","C","o","n","t","r","i","b","u","t","o","r","s">>, {<<<<"1">>>>, <<<<"1">>, <<"0">>>>})

LedgerRequests ==
  PathsOf("Ledger", <<"l","e","v","e","l">>, {<<>>})
  \cup PathsOf("Ledger", <<"o","w","n","e","r">>, {<<>>})
  \cup PathsOf("Ledger", <<"f","e","e">>, {<<>>})
  \cup PathsOf("Ledger", <<"q","u","o","t","a">>, {<<>>})
  \cup PathsOf("Ledger", <<"t","o","t","a","l">>, {<<>>, <<<<"0">>>>})
  \cup PathsOf("Ledger", <<"b","a","l","a","n","c","e","s">>, {<<Addr1>>, <<AddrAB>>, <<<<"5">>>>})
  \cup PathsOf("Ledger", <<"a","l","l","o","w","a","n","c","e","s">>,
               {<<Addr1>>, <<Addr1, AddrAB>>, <<AddrAB, Addr1>>, <<Addr1, <<"5">>>>})
  \cup PathsOf("Ledger", <<"f","l","a","g","s">>, {<<<<"t","r","u","e">>>>, <<<<"f","a","l","s","e">>>>, <<<<"1">>>>})
  \cup PathsOf("Ledger", <<"d","e","l","t","a","s">>, {<<<<"-","1">>>>, <<<<"5">>>>})
  \cup PathsOf("Ledger", <<"n","a","m","e","s">>, {<<<<"a","b","c">>>>, <<<<"1","2","3">>>>, <<<<"0","x","a","b">>>>})
  \cup PathsOf("Ledger", <<"a","c","c","o","u","n","t","s">>,
               {<<Addr1>>, <<Addr1, <<"b","a","l","a","n","c","e">>>>, <<Addr1, <<"n","o","n","c","e">>>>, <<Addr1, <<"f","r","o","z","e","n">>>>})
  \cup PathsOf("Ledger", <<"s","t","a","t","u","s","e","s">>,
               {<<Addr1, <<"1">>>>, <<Addr1, <<"2">>>>, <<Addr1, <<"1">>, <<"2">>>>})
  \cup PathsOf("Ledger", <<"q","u","e","u","e">>,
               {<<<<"l","e","n","g","t","h">>>>, <<<<".","l","e","n","g","t","h">>>>, <<<<"1","0","0","0">>>>} \cup {<<i>> : i \in Indices})
  \cup PathsOf("Ledger", <<"h","i","s","t","o","r","y">>, {<<<<"7">>>>, <<<<"1","0","0","0">>>>} \cup {<<i>> : i \in Indices})
  \cup PathsOf("Ledger", <<"h","i","s","t","o","r","y">>, {<<<<"-","1","0","0">>>>, <<<<"-","1">>>>})
  \cup PathsOf("Ledger", <<"q","u","e","u","e">>,
               {<<<<"-","1">>>>, <<<<"a","b","c">>>>, <<<<"1","2","a","b","c">>>>, <<<<"0">>, <<"1">>>>, <<<<"l","e","n","g","t","h">>, <<"0">>>>})
  \cup PathsOf("Ledger", <<"h","i","s","t","o","r","y">>,
               {<<<<"a","b","c">>>>, <<<<"1","2","a","b","c">>>>, <<<<"l","e","n","g","t","h">>>>, <<<<"0">>, <<"1">>>>})
  \cup PathsOf("Ledger", <<"b","a","l","a","n","c","e","s">>, {<<Addr1, <<"0">>>>, <<Addr1, <<"b","a","l","a","n","c","e">>>>})
  \cup PathsOf("Ledger", <<"a","c","c","o","u","n","t","s">>, {<<Addr1, <<"m","i","s","s","i","n","g">>>>, <<Addr1, <<"b","a","l","a","n","c","e">>, <<"0">>>>})
  \cup PathsOf("Ledger", <<"i","n","f","o">>,
               {<<<<"m","i","s","s","i","n","g">>>>, <<<<"0">>>>, <<<<"b","a","l","a","n","c","e">>, <<"0">>>>, <<<<"f","r","o","z","e","n">>, <<"x">>>>})
  \cup PathsOf("Ledger", <<"t","i","t","l","e">>, {<<<<"0">>>>})
  \cup PathsOf("Partial", <<"c","o","u","n","t">>, {<<>>})
  \cup PathsOf("Partial", <<"g","h","o","s","t">>, {<<>>})
  \cup PathsOf("Partial", <<"m","i","s","s","i","n","g">>, {<<>>})
  \cup PathsOf("Ledger", <<"i","n","f","o">>, {<<<<"b","a","l","a","n","c","e">>>>, <<<<"n","o","n","c","e">>>>, <<<<"f","r","o","z","e","n">>>>})
  \cup PathsOf("Ledger", <<"t","a","b","l","e">>, {<<<<"1","0","0","0">>>>} \cup {<<i>> : i \in Indices})
  \cup PathsOf("Ledger", <<"l","a","t","e">>, {<<Addr1>>})
  \cup PathsOf("Ledger", <<"t","i","t","l","e">>, {<<>>})
  \cup PathsOf("Ledger", <<"m","i","s","s","i","n","g">>, {<<>>})
  \cup PathsOf("Nowhere", <<"t","o","t","a","l">>, {<<>>})
  \cup PathsOf("Grid", <<"r","o","w","s">>, {<<i>> : i \in Indices} \cup {<<i, j>> : i, j \in Indices})
  \cup PathsOf("Grid", <<"v","o","t","e","s">>, {<<Addr1, AddrAB>>, <<Addr1, AddrAB, <<"1">>>>})
  \cup PathsOf("Grid", <<"t","e","a","m","s">>, {<<<<"1">>, <<"0">>>>, <<<<"1">>, <<"0">>, <<"b","a","l","a","n","c","e">>>>})
  \cup PathsOf("Grid", <<"b","o","a","r","d">>, {<<i>> : i \in Indices} \cup {<<i, j>> : i, j \in Indices})

ResolveRequests == TestContractRequests \cup TokenVaultRequests \cup LedgerRequests

\* The ambient hre: absent, or reading the layouts of the project.
Hres == {<<>>, HreLayouts}

InitResolve ==
  /\ storage = InitialStorage
  /\ calls = [c \in Callers |-> IdleCall]
  /\ started = 0
  /\ written = {}
  /\ \E r \in ResolveRequests, hre \in Hres :
       rq = [contractName |-> r.contractName, varName |-> r.varName, path |-> r.path,
             hre |-> hre]
  /\ rs = NoResolution

\* getStorageLocation(contractName, varName, path) returns or throws.
ResolveStep ==
  /\ rs.pc = "none"
  /\ rs' = [rs EXCEPT !.pc = "resolved",
                      !.out = Outcome(getStorageLocation(loadStorageLayout(rq.contractName),
                                                         rq.varName, rq.path, rq.hre))]
  /\ UNCHANGED <<storage, calls, started, written, rq>>

\* setSlotValue formats the slot of the location for the backend.
FormatStep ==
  /\ rs.pc = "resolved"
  /\ rs.out.ok
  /\ rs' = [rs EXCEPT !.pc = "formatted", !.sent = formatSlot(rs.out.slot)]
  /\ UNCHANGED <<storage, calls, started, written, rq>>

NextResolve == ResolveStep \/ FormatStep

SpecResolve == InitResolve /\ [][NextResolve]_vars

(***************************************************************************)
(* Encoding on its own: encodeValueForStorage (slot-utils.ts) applied to a *)
(* value and the type and size of a location, and the merge of             *)
(* setPartialSlotValue applied to the encoded value and a current word.    *)
(***************************************************************************)
\* The types and sizes of the locations encoded for.
EncodeCells ==
  { [type |-> <<"t","_","u","i","n","t","8">>, size |-> 1], [type |-> <<"t","_","u","i","n","t","1","6">>, size |-> 2],
    [type |-> <<"t","_","u","i","n","t","2","5","6">>, size |-> 32], [type |-> <<"t","_","e","n","u","m","(","S","t","a","t","u","s",")","1","2">>, size |-> 1],
    [type |-> <<"t","_","i","n","t","8">>, size |-> 1], [type |-> <<"t","_","i","n","t","1","6">>, size |-> 2],
    [type |-> <<"t","_","i","n","t","2","5","6">>, size |-> 32], [type |-> <<"t","_","s","t","r","i","n","g","_","s","t","o","r","a","g","e">>, size |-> 32],
    [type |-> <<"t","_","b","y","t","e","s","_","s","t","o","r","a","g","e">>, size |-> 32], [type |-> <<"t","_","b","o","o","l">>, size |-> 1],
    [type |-> <<"t","_","a","d","d","r","e","s","s">>, size |-> 20] }

EncodeNumbers ==
  {-32769, -32768, -129, -128, -1, 0, 1, 7, 127, 128, 255, 256, 500, 32767, 32768, 65535,
   65536}

EncodeStrings ==
  { <<>>, <<"7">>, <<"-","1">>, <<"5","0","0">>, <<"H","e","l","l","o">>, <<"c", "a", "f", EAcute>>,
    Repeat("a", MaxShortString), LongString }

EncodeAddresses == {Addr1, AddrAB}

EncodeValues ==
  {NumberValue(n) : n \in EncodeNumbers}
    \cup {StringValue(s) : s \in EncodeStrings \cup EncodeAddresses}
    \cup {BooleanValue(b) : b \in BOOLEAN}

\* The byte offsets of the locations merged at.
EncodeOffsets == {0, 1, 21, 31}

\* The words eth_getStorageAt answers with.
CurrentWords ==
  { ZeroWord,
    <<"0","x">> \o PadStart(<<"f","f">>, HexWordDigits, "0"),
    <<"0","x">> \o PadStart(<<"3","3","4","4">> \o Repeat("2", 40) \o <<"1","1">>, HexWordDigits, "0"),
    <<"0","x">> \o Repeat("f", HexWordDigits) }

NoEncoding == [pc |-> "none", word |-> Throw(""), merged |-> Throw("")]

InitEncode ==
  /\ storage = InitialStorage
  /\ calls = [c \in Callers |-> IdleCall]
  /\ started = 0
  /\ written = {}
  /\ \E value \in EncodeValues, cell \in EncodeCells, offset \in EncodeOffsets,
        current \in CurrentWords :
       /\ offset + cell.size <= SlotBytes
       /\ rq = [value |-> value, type |-> cell.type, size |-> cell.size,
                offset |-> offset, current |-> current]
  /\ rs = NoEncoding

\* setSlotValue encodes the value for the location.
EncodeStep ==
  /\ rs.pc = "none"
  /\ rs' = [rs EXCEPT !.pc = "encoded",
                      !.word = encodeValueForStorage(rq.value,
                                 [type |-> rq.type, size |-> rq.size])]
  /\ UNCHANGED <<storage, calls, started, written, rq>>

\* setPartialSlotValue merges the encoded value into the current word.
MergeStep ==
  /\ rs.pc = "encoded"
  /\ rs.word.ok
  /\ rs' = [rs EXCEPT !.pc = "merged",
                      !.merged = MergePartial(rq.current, rs.word.v, rq.offset, rq.size)]
  /\ UNCHANGED <<storage, calls, started, written, rq>>

NextEncode == EncodeStep \/ MergeStep

SpecEncode == InitEncode /\ [][NextEncode]_vars

(***************************************************************************)
(* Path resolution call by call: getStorageLocation and then each          *)
(* activation of resolveMappingPath, resolveArrayPath and                  *)
(* resolveStructPath is a step.  rs.call is the call being made, rs.depth  *)
(* the number of resolver calls made so far.                               *)
(***************************************************************************)
\* The depth up to which calls are followed.
MaxDepth == 4

NoCall == [fn |-> "", varLocation |-> <<>>, path |-> <<>>]

NoWalk == [pc |-> "none", call |-> NoCall, depth |-> 0, out |-> NoOutcome]

\* The walk after an activation gave r: its call is made, or its result returned.
Walked(walk, r) ==
  IF IsCall(r) THEN [walk EXCEPT !.pc = "call", !.call = r.call[1], !.depth = @ + 1]
  ELSE [walk EXCEPT !.pc = "done", !.out = Outcome(r)]

InitWalk ==
  /\ storage = InitialStorage
  /\ calls = [c \in Callers |-> IdleCall]
  /\ started = 0
  /\ written = {}
  /\ \E r \in ResolveRequests, hre \in Hres :
       rq = [contractName |-> r.contractName, varName |-> r.varName, path |-> r.path,
             hre |-> hre]
  /\ rs = NoWalk

\* getStorageLocation finds the variable and returns, throws or calls a resolver.
WalkStart ==
  /\ rs.pc = "none"
  /\ rs' = Walked(rs, StorageLocation(loadStorageLayout(rq.contractName), rq.varName,
                                      rq.path, rq.hre))
  /\ UNCHANGED <<storage, calls, started, written, rq>>

\* The resolver called runs: it returns, throws or calls a resolver.
WalkStep(fn) ==
  /\ rs.pc = "call"
  /\ rs.call.fn = fn
  /\ rs.depth < MaxDepth
  /\ rs' = Walked(rs, Enter(rs.call, rq.hre))
  /\ UNCHANGED <<storage, calls, started, written, rq>>

MappingStep == WalkStep("resolveMappingPath")

ArrayStep == WalkStep("resolveArrayPath")

StructStep == WalkStep("resolveStructPath")

NextWalk == WalkStart \/ MappingStep \/ ArrayStep \/ StructStep

SpecWalk == InitWalk /\ [][NextWalk]_vars

(***************************************************************************)
(* What the layout declares about the variable of a resolution, and the    *)
(* slots Solidity assigns: the reference the properties are stated         *)
(* against.                                                                *)
(***************************************************************************)
RqDeclared ==
  /\ loadStorageLayout(rq.contractName) # <<>>
  /\ \E i \in 1..Len(loadStorageLayout(rq.contractName)[1].storage) :
       loadStorageLayout(rq.contractName)[1].storage[i].label = rq.varName

RqTypes == loadStorageLayout(rq.contractName)[1].types

RqVar ==
  LET st == loadStorageLayout(rq.contractName)[1].storage
  IN st[CHOOSE i \in 1..Len(st) : st[i].label = rq.varName]

DeclaredSlot == DigitsValue(RqVar.slot, 10)

HasMember(structType, f) ==
  /\ HasType(RqTypes, structType)
  /\ \E i \in 1..Len(TypeOf(RqTypes, structType).members) :
       TypeOf(RqTypes, structType).members[i].label = f

MemberOf(structType, f) ==
  LET ms == TypeOf(RqTypes, structType).members
  IN ms[CHOOSE i \in 1..Len(ms) : ms[i].label = f]

IsMappingType(type) == StartsWith(type, <<"t","_","m","a","p","p","i","n","g","(">>)

\* The declared key type and value type of t_mapping(K,V): K has no comma.
DeclaredKeyType(type) == Substring(type, 10, IndexOf(type, <<",">>))

DeclaredValueType(type) == Substring(type, IndexOf(type, <<",">>) + 1, Len(type) - 1)

IsDynamicKeyType(keyType) == StartsWith(keyType, <<"t","_","s","t","r","i","n","g">>) \/ keyType = <<"t","_","b","y","t","e","s","_","m","e","m","o","r","y","_","p","t","r">>

\* leftPad32(k) of a key of a fixed-width type.
KeyWord(key) ==
  IF StartsWith(key, <<"0","x">>) THEN HexPiece(PadStart(Slice(key, 2), HexWordDigits, "0"))
  ELSE IF key = <<"t","r","u","e">> THEN WordPiece(Num(1))
  ELSE IF key = <<"f","a","l","s","e">> THEN WordPiece(Num(0))
  ELSE IF key[1] = "-"
    THEN [enc |-> "hex", cs |-> TwosComplementHex(-DigitsValue(Tail(key), 10), SlotBytes),
          big |-> <<>>]
  ELSE WordPiece(Num(DigitsValue(key, 10)))

\* mappingSlot(s, k) for a key of the declared type; s is a number.
MappingSlotOf(s, keyType, key) ==
  IF IsDynamicKeyType(keyType) THEN Keccak(<<Utf8Piece(key), WordPiece(s)>>)
  ELSE Keccak(<<KeyWord(key), WordPiece(s)>>)

\* The cell of a path of keys into a mapping type: [slot, type, left], where left
\* is the part of the path that the mapping levels do not consume.
RECURSIVE NestedMappingCell(_, _, _)
NestedMappingCell(s, type, path) ==
  IF path = <<>> \/ ~IsMappingType(type) THEN [slot |-> s, type |-> type, left |-> path]
  ELSE NestedMappingCell(MappingSlotOf(s, DeclaredKeyType(type), Head(path)),
                         DeclaredValueType(type), Tail(path))

RECURSIVE MappingDepth(_)
MappingDepth(type) ==
  IF IsMappingType(type) THEN 1 + MappingDepth(DeclaredValueType(type)) ELSE 0

\* The slot number the backend reads from the slot a resolution sent.
SentSlot == BackendSlot(rs.sent)

Slot(x) == [ok |-> TRUE, v |-> x]

\* The byte offset of a location: none is 0.
OffsetOf(out) == IF out.offset = <<>> THEN 0 ELSE out.offset[1]

Resolved == rs.pc \in {"resolved", "formatted"}

Formatted == rs.pc = "formatted"

IsStructMemberRequest ==
  /\ RqDeclared
  /\ StartsWith(RqVar.type, <<"t","_","s","t","r","u","c","t","(">>)
  /\ Len(rq.path) = 1
  /\ HasMember(RqVar.type, rq.path[1])

\* C4: a member f of a top-level struct at slot s, with relative slot r and byte
\* offset o in the layout, resolves to slot s + r and offset o.
C4_StructMemberSlot ==
  IsStructMemberRequest =>
    LET m == MemberOf(RqVar.type, rq.path[1]) IN
    /\ Resolved => rs.out.ok /\ OffsetOf(rs.out) = m.offset
    /\ Formatted => SentSlot = Slot(Num(DeclaredSlot + DigitsValue(m.slot, 10)))

IsMappingToStructRequest ==
  /\ RqDeclared
  /\ IsMappingType(RqVar.type)
  /\ StartsWith(DeclaredValueType(RqVar.type), <<"t","_","s","t","r","u","c","t","(">>)
  /\ Len(rq.path) = 2
  /\ HasMember(DeclaredValueType(RqVar.type), rq.path[2])

\* C5: for mapping(K => struct S) in any contract, [key, field] resolves to slot
\* mappingSlot(declaredSlot, key) + r and offset o of the member named field.
C5_MappingToStructMember ==
  IsMappingToStructRequest =>
    LET m == MemberOf(DeclaredValueType(RqVar.type), rq.path[2])
        base == MappingSlotOf(Num(DeclaredSlot), DeclaredKeyType(RqVar.type), rq.path[1])
    IN /\ Resolved => rs.out.ok /\ OffsetOf(rs.out) = m.offset
       /\ Formatted => SentSlot = Slot(NumAdd(base, DigitsValue(m.slot, 10)))

IsNestedMappingRequest ==
  /\ RqDeclared
  /\ MappingDepth(RqVar.type) >= 2
  /\ Len(rq.path) = MappingDepth(RqVar.type)

\* C6: a path of n keys into an n-level mapping (n >= 2) at slot s resolves to the
\* nested mappingSlot of all the keys, and to the declared innermost value type.
C6_NestedMappingCell ==
  IsNestedMappingRequest =>
    LET cell == NestedMappingCell(Num(DeclaredSlot), RqVar.type, rq.path) IN
    /\ Resolved => rs.out.ok /\ rs.out.type = cell.type
    /\ Formatted => SentSlot = Slot(cell.slot)

\* The key is a value of the key type, written as setState's callers write it.
KeyFits(keyType, key) ==
  IF IsDynamicKeyType(keyType) THEN TRUE
  ELSE IF keyType = <<"t","_","b","o","o","l">> THEN key \in {<<"t","r","u","e">>, <<"f","a","l","s","e">>}
  ELSE IF StartsWith(keyType, <<"t","_","i","n","t">>)
    THEN IsDecDigits(key) \/ (Len(key) > 1 /\ key[1] = "-" /\ IsDecDigits(Tail(key)))
  ELSE IF StartsWith(keyType, <<"t","_","u","i","n","t">>) \/ StartsWith(keyType, <<"t","_","e","n","u","m">>)
    THEN IsDecDigits(key)
  ELSE IsHexLiteral(key)

IsSingleKeyRequest ==
  /\ RqDeclared
  /\ IsMappingType(RqVar.type)
  /\ Len(rq.path) = 1
  /\ KeyFits(DeclaredKeyType(RqVar.type), rq.path[1])

\* C7 on its example: setState of 500 to balances[key] of Ledger (slot 3) writes
\* the word 0x00..01f4 to the slot keccak256(leftPad32(key) ++ leftPad32(3)).
BalancesExample(call) ==
  (/\ call.req.contractName = "Ledger"
   /\ call.req.varName = <<"b","a","l","a","n","c","e","s">>
   /\ Len(call.req.path) = 1
   /\ call.req.value = NumberValue(500)
   /\ call.pc \in {"set", "done"}) =>
    /\ call.loc.ok /\ call.loc.size = SlotBytes
    /\ BackendSlot(call.slot)
         = Slot(Keccak(<<KeyWord(call.req.path[1]), WordPiece(Num(3))>>))
    /\ call.data = <<"0","x">> \o PadStart(<<"1","f","4">>, HexWordDigits, "0")
    /\ call.ops = <<Op("hardhat_setStorageAt", call.req.contractAddress, call.slot)>>

\* C7: a mapping at slot s with a fixed-width key type (integer, address, bool,
\* enum, fixed bytes) resolves [k] to keccak256(leftPad32(k) ++ leftPad32(s)) and
\* offset 0; and setState of 500 to balances[k] writes 0x00..01f4 to that slot.
C7_FixedWidthKeySlot ==
  /\ (IsSingleKeyRequest /\ ~IsDynamicKeyType(DeclaredKeyType(RqVar.type))) =>
       /\ Resolved => rs.out.ok /\ OffsetOf(rs.out) = 0
       /\ Formatted =>
            SentSlot = Slot(Keccak(<<KeyWord(rq.path[1]), WordPiece(Num(DeclaredSlot))>>))
  /\ \A c \in Callers : BalancesExample(calls[c])

\* C8: the hash input of a mapping slot follows the declared key type: the raw
\* bytes of the key for a string or bytes key type, whatever the key's text looks
\* like, and the 32-byte padded key for a fixed-width key type.
C8_HashingModeByKeyType ==
  IsSingleKeyRequest =>
    LET keyBytes == IF IsDynamicKeyType(DeclaredKeyType(RqVar.type))
                      THEN Utf8Piece(rq.path[1]) ELSE KeyWord(rq.path[1])
    IN /\ Resolved => rs.out.ok
       /\ Formatted => SentSlot = Slot(Keccak(<<keyBytes, WordPiece(Num(DeclaredSlot))>>))

IsArrayType(type) == StartsWith(type, <<"t","_","a","r","r","a","y","(">>)

\* t_array(T)dyn_storage is a dynamic array, t_array(T)N_storage a fixed one.
IsDynamicArrayType(type) ==
  IsArrayType(type) /\ Slice(type, Len(type) - Len(<<")","d","y","n","_","s","t","o","r","a","g","e">>)) = <<")","d","y","n","_","s","t","o","r","a","g","e">>

IsLengthRequest ==
  /\ RqDeclared
  /\ IsDynamicArrayType(RqVar.type)
  /\ rq.path \in {<<<<"l","e","n","g","t","h">>>>, <<<<".","l","e","n","g","t","h">>>>}

IsElementRequest ==
  /\ RqDeclared
  /\ IsArrayType(RqVar.type)
  /\ Len(rq.path) = 1
  /\ IsDecDigits(rq.path[1])

C10_FixedArraySlot ==
  (IsElementRequest /\ ~IsDynamicArrayType(RqVar.type)) =>
    /\ Resolved => rs.out.ok
    /\ Formatted => SentSlot = Slot(Num(DeclaredSlot + DigitsValue(rq.path[1], 10)))

(***************************************************************************)
(* Properties of setState and the backend.                                 *)
(***************************************************************************)
\* Byte b (b = 0 is the lowest) of a word of 64 hex digits.
ByteAt(word, b) == SubSeq(word, HexWordDigits - 2 * b - 1, HexWordDigits - 2 * b)

Cells == DOMAIN storage \cup DOMAIN InitialStorage

\* Some successful call resolved a cell that covers byte b of the word at cell.
WasWritten(cell, b) ==
  \E w \in written :
    /\ w.address = cell.address
    /\ w.slot = cell.slot
    /\ w.offset <= b
    /\ b < w.offset + w.size

\* C1: successful calls change only the bytes [offset, offset + width) of the
\* cells they resolve, also for a narrow cell at offset 0: a byte that no
\* successful call resolved keeps its initial value.
C1_FrameOfPartialWrites ==
  \A cell \in Cells : \A b \in 0..(SlotBytes - 1) :
    ~WasWritten(cell, b) => ByteAt(WordAt(storage, cell), b)
                              = ByteAt(WordAt(InitialStorage, cell), b)

Successful(call) == call.pc = "done" /\ call.result

OpsNamed(ops, name) == {i \in 1..Len(ops) : ops[i].op = name}

\* The number a slot string denotes: decimal digits, or hex digits after 0x.
SlotValue(slot) == StrBigInt(slot)

\* C2: a successful setState sends exactly one hardhat_setStorageAt, to the given
\* address and the resolved slot; for a full word (offset 0, width 32) it sends no
\* eth_getStorageAt; a get is sent at most once, to the same address and slot, and
\* its result is received before the set is sent.
C2_BackendCallSequence ==
  \A c \in Callers :
    Successful(calls[c]) =>
      LET call == calls[c]
          ops == call.ops
          sets == OpsNamed(ops, "hardhat_setStorageAt")
          gets == OpsNamed(ops, "eth_getStorageAt")
      IN /\ Cardinality(sets) = 1
         /\ Cardinality(gets) <= 1
         /\ \A i \in sets \cup gets :
              /\ ops[i].address = call.req.contractAddress
              /\ BackendSlot(ops[i].slot) = SlotValue(call.loc.slot)
         /\ (OffsetOf(call.loc) = 0 /\ call.loc.size = SlotBytes) => gets = {}
         /\ gets # {} => /\ Len(ops) = 3
                         /\ ops[1].op = "eth_getStorageAt"
                         /\ ops[2].op = "result"
                         /\ ops[3].op = "hardhat_setStorageAt"

\* A successful call that merged into a word of a slot of four decimal digits has
\* returned, and so has a successful call that wrote a full word.
C2_Witness ==
  /\ \E c \in Callers : Successful(calls[c]) /\ Len(calls[c].ops) = 3
  /\ \E c \in Callers : /\ Successful(calls[c])
                        /\ Len(calls[c].ops) = 1
                        /\ calls[c].req.varName = <<"t","i","t","l","e">>

\* A value that has no encoding for the type of the cell.
IsNumeral(s) == IsDecDigits(s) \/ IsHexLiteral(s)

Unencodable(value, type) ==
  \/ StartsWith(type, <<"t","_","u","i","n","t">>) /\ value.t = "string" /\ ~IsNumeral(value.s)
  \/ StartsWith(type, <<"t","_","s","t","r","i","n","g">>) /\ value.t = "string" /\ Len(value.s) > MaxShortString

\* C3: when the resolution fails, or the value cannot be encoded for the type of
\* the resolved cell, setState sends nothing to the backend.
C3_NoBackendCallOnFailure ==
  \A c \in Callers :
    LET call == calls[c] IN
    (/\ call.pc \in {"get", "set", "done"}
     /\ \/ ~call.loc.ok
        \/ Unencodable(call.req.value, call.loc.type)) => call.ops = <<>>

(***************************************************************************)
(* Slot arithmetic, value encoding and the errors of resolution.           *)
(***************************************************************************)
\* An integer literal: decimal digits, with or without a sign.
IsIntegerLiteral(s) ==
  IsDecDigits(s) \/ (Len(s) > 1 /\ s[1] = "-" /\ IsDecDigits(Tail(s)))

\* A number in [0, 2^256): a small one that is not negative, or a hash plus or
\* minus a small number (taken to stay within the word).
InWordRange(x) == IsSmall(x) => x.n >= 0

IsIndexRequest ==
  /\ RqDeclared
  /\ IsArrayType(RqVar.type)
  /\ Len(rq.path) = 1
  /\ IsIntegerLiteral(rq.path[1])

\* C11: a slot addition is reduced modulo 2^256: the slot that resolving base +
\* index of an array returns and sends to the backend is a number in [0, 2^256).
C11_SlotAdditionWraps ==
  (IsIndexRequest /\ Formatted) => SentSlot.ok /\ InWordRange(SentSlot.v)

Encoded == rs.pc \in {"encoded", "merged"}

IsUnsignedType(type) == StartsWith(type, <<"t","_","u","i","n","t">>) \/ StartsWith(type, <<"t","_","e","n","u","m">>)

IsSignedType(type) == StartsWith(type, <<"t","_","i","n","t">>)

\* The value to encode is an integer, as a number or as its literal.
RqIsInteger ==
  rq.value.t = "number" \/ (rq.value.t = "string" /\ IsIntegerLiteral(rq.value.s))

RqInteger ==
  IF rq.value.t = "number" THEN rq.value.n
  ELSE IF rq.value.s[1] = "-" THEN -DigitsValue(Tail(rq.value.s), 10)
  ELSE DigitsValue(rq.value.s, 10)

\* v fits w bytes; the values of the model are below 2^24 in magnitude.
FitsUnsigned(v, w) == v >= 0 /\ (w >= 3 \/ v < 256 ^ w)

FitsSigned(v, w) == w >= 3 \/ (-((256 ^ w) \div 2) <= v /\ v < (256 ^ w) \div 2)

RqFits ==
  IF IsUnsignedType(rq.type) THEN FitsUnsigned(RqInteger, rq.size)
  ELSE FitsSigned(RqInteger, rq.size)

\* C12: encoding an integer that does not fit the width of the cell fails; no word
\* is produced.
C12_OverflowRejected ==
  (/\ Encoded
   /\ IsUnsignedType(rq.type) \/ IsSignedType(rq.type)
   /\ RqIsInteger
   /\ ~RqFits) => ~rs.word.ok

\* The two hex digits of a byte.
ByteHex(n) == PadStart(IntToString(n, 16), 2, "0")

\* Byte b (b = 0 is the lowest) of the two's complement of v in w bytes, zero above.
TwosComplementByte(v, w, b) ==
  IF b >= w THEN 0
  ELSE IF b >= 3 THEN (IF v < 0 THEN 255 ELSE 0)
  ELSE ((v % (256 ^ 3)) \div (256 ^ b)) % 256

\* The encoded word is '0x' and 64 hex digits holding v in its low w bytes.
WordHolds(word, v, w) ==
  /\ IsWordData(word)
  /\ \A b \in 0..(SlotBytes - 1) :
       ByteAt(Slice(word, 2), b) = ByteHex(TwosComplementByte(v, w, b))

C14_UnsignedWord ==
  /\ (Encoded /\ IsUnsignedType(rq.type) /\ RqIsInteger /\ RqFits) =>
       rs.word.ok /\ WordHolds(rs.word.v, RqInteger, SlotBytes)
  /\ (Encoded /\ rq.type = <<"t","_","u","i","n","t","2","5","6">> /\ rq.value = NumberValue(500)) =>
       rs.word.ok /\ rs.word.v = <<"0","x">> \o PadStart(<<"1","f","4">>, HexWordDigits, "0")

\* 500 has been encoded as uint256.
C14_Witness ==
  /\ Encoded
  /\ rq.type = <<"t","_","u","i","n","t","2","5","6">>
  /\ rq.value = NumberValue(500)
  /\ rs.word.ok

IsStringType(type) == StartsWith(type, <<"t","_","s","t","r","i","n","g">>) \/ StartsWith(type, <<"t","_","b","y","t","e","s">>)

\* The UTF-8 bytes of a character, in hex: one byte below U+0080, two below U+0800.
Utf8Hex(c) ==
  IF CharCode(c) < 128 THEN ByteHex(CharCode(c))
  ELSE ByteHex(192 + (CharCode(c) \div 64)) \o ByteHex(128 + (CharCode(c) % 64))

RECURSIVE Utf8BytesHex(_)
Utf8BytesHex(s) == IF s = <<>> THEN <<>> ELSE Utf8Hex(Head(s)) \o Utf8BytesHex(Tail(s))

\* The number of bytes of a string value.
ByteLength(s) == Len(Utf8BytesHex(s)) \div 2

\* C15: a string or bytes value of n <= 31 bytes is encoded as its n bytes, zeros up
\* to byte 31 and a last byte 2n; a value of 32 bytes or more is rejected.
C15_ShortStringWord ==
  (Encoded /\ IsStringType(rq.type) /\ rq.value.t = "string") =>
    IF ByteLength(rq.value.s) <= MaxShortString
      THEN /\ rs.word.ok
           /\ rs.word.v = <<"0","x">> \o PadEnd(Utf8BytesHex(rq.value.s), HexWordDigits - 2, "0")
                            \o ByteHex(2 * ByteLength(rq.value.s))
      ELSE ~rs.word.ok

\* The bytes [offset, offset + size) of the merged word are the low bytes of the
\* value, the others those of the current word.
MergedBytes(merged, current, value, offset, size) ==
  /\ IsWordData(merged)
  /\ \A b \in 0..(SlotBytes - 1) :
       ByteAt(Slice(merged, 2), b)
         = IF offset <= b /\ b < offset + size
             THEN ToLower(ByteAt(Slice(value, 2), b - offset))
             ELSE ToLower(ByteAt(Slice(current, 2), b))

\* C16: for offset + width <= 32 the merge of a current word and an encoded value
\* has the low width bytes of the value at bytes [offset, offset + width) and the
\* bytes of the current word elsewhere; 0x07 at offset 1, width 1 into 0x00..00ff
\* changes byte 1 only.
C16_PartialMerge ==
  /\ (rs.pc = "merged" /\ IsWordData(rs.word.v)) =>
       /\ rs.merged.ok
       /\ MergedBytes(rs.merged.v, rq.current, rs.word.v, rq.offset, rq.size)
  /\ (/\ rs.pc = "merged"
      /\ rq.value = NumberValue(7) /\ rq.type = <<"t","_","u","i","n","t","8">> /\ rq.offset = 1
      /\ rq.current = <<"0","x">> \o PadStart(<<"f","f">>, HexWordDigits, "0")) =>
       rs.merged.ok /\ rs.merged.v = <<"0","x">> \o PadStart(<<"0","7","f","f">>, HexWordDigits, "0")

\* 7 has been merged at offset 1, width 1 into a word that is not zero.
C16_Witness ==
  /\ rs.pc = "merged"
  /\ rq.value = NumberValue(7) /\ rq.type = <<"t","_","u","i","n","t","8">> /\ rq.offset = 1
  /\ rq.current = <<"0","x">> \o PadStart(<<"f","f">>, HexWordDigits, "0")
  /\ rs.merged.ok

IsStructType(type) == StartsWith(type, <<"t","_","s","t","r","u","c","t","(">>)

IsLengthMarker(segment) == segment \in {<<"l","e","n","g","t","h">>, <<".","l","e","n","g","t","h">>}

\* The declared element type T of t_array(T)N_storage or t_array(T)dyn_storage.
DeclaredElementType(type) == Substring(type, 8, LastIndexOf(type, ")"))

\* The declared types along a path: [at, left], where at is the type reached and
\* left the segments from the first one that the type reached cannot take (a
\* segment on a scalar, a name that is no member of a struct, a segment that is no
\* decimal index of an array, the length marker on a fixed array); left is <<>>
\* when the whole path is taken.
RECURSIVE DeclaredWalk(_, _)
DeclaredWalk(type, path) ==
  IF path = <<>> THEN [at |-> type, left |-> <<>>]
  ELSE IF IsMappingType(type) THEN DeclaredWalk(DeclaredValueType(type), Tail(path))
  ELSE IF IsArrayType(type)
    THEN IF IsLengthMarker(Head(path)) /\ IsDynamicArrayType(type)
           THEN DeclaredWalk(<<"t","_","u","i","n","t","2","5","6">>, Tail(path))
         ELSE IF IsDecDigits(Head(path))
           THEN DeclaredWalk(DeclaredElementType(type), Tail(path))
         ELSE [at |-> type, left |-> path]
  ELSE IF IsStructType(type) /\ HasMember(type, Head(path))
    THEN DeclaredWalk(MemberOf(type, Head(path)).type, Tail(path))
  ELSE [at |-> type, left |-> path]

RqWalk == DeclaredWalk(RqVar.type, rq.path)

\* The declared type of the variable is in the type map of the layout.
RqTyped == RqDeclared /\ HasType(RqTypes, RqVar.type)

IsScalarType(type) == ~IsMappingType(type) /\ ~IsArrayType(type) /\ ~IsStructType(type)

\* Segments remain where the path reaches a scalar or a short string.
SegmentsLeftAtScalar == RqTyped /\ RqWalk.left # <<>> /\ IsScalarType(RqWalk.at)

\* C17: when resolution reaches a scalar type while segments remain (at the
\* variable, a mapping value, an array element or a struct member) it fails;
\* trailing segments are never ignored.
C17_TrailingSegmentsRejected ==
  (SegmentsLeftAtScalar /\ Resolved) => ~rs.out.ok

\* The labels of the members of a struct type of the layout.
MemberLabels(structType) ==
  [i \in 1..Len(TypeOf(RqTypes, structType).members) |->
     TypeOf(RqTypes, structType).members[i].label]

\* A segment names no member of the struct that the path reaches.
NoSuchMember == RqTyped /\ RqWalk.left # <<>> /\ IsStructType(RqWalk.at)

\* C18: resolve fails when the variable is not in the storage list, when its type is
\* not in the type map, and when a segment names no member of the struct reached;
\* the error of the last case lists the names of the members.
C18_NotFoundErrors ==
  Resolved =>
    /\ (loadStorageLayout(rq.contractName) # <<>> /\ ~RqDeclared) => ~rs.out.ok
    /\ (RqDeclared /\ ~RqTyped) => ~rs.out.ok
    /\ NoSuchMember => ~rs.out.ok /\ rs.out.names = MemberLabels(RqWalk.at)

\* The backend failed during the call.
BackendFailed(call) == call.pc = "done" /\ call.caught = ProviderError

\* C19: when a backend request of a call fails, the caller of setState observes the
\* error of the backend and not a normal result (true or false).
C19_BackendFailurePropagates ==
  \A c \in Callers : BackendFailed(calls[c]) => calls[c].result \notin BOOLEAN

\* A segment does not match the container that the path reaches: an index on a
\* struct, or on an array a segment that is no decimal number or the length marker
\* of a fixed array.
SegmentMismatch ==
  /\ RqTyped
  /\ RqWalk.left # <<>>
  /\ \/ IsStructType(RqWalk.at) /\ IsDecDigits(Head(RqWalk.left))
     \/ IsArrayType(RqWalk.at) /\ ~IsIntegerLiteral(Head(RqWalk.left))

\* C20: a segment whose kind does not match the container makes resolve fail: an
\* index on a struct, a field name or text such as 12abc on an array, the length
\* marker on a fixed array.
C20_SegmentKindMismatch ==
  (SegmentMismatch /\ Resolved) => ~rs.out.ok

(***************************************************************************)
(* Concurrency, repetition, determinism and the shape of resolved cells.   *)
(***************************************************************************)
\* The cell of the backend that a call addresses.
CellOf(call) == Cell(call.req.contractAddress, BackendSlot(call.slot).v)

\* The bytes that a call resolved.
FieldBytes(call) ==
  {b \in 0..(SlotBytes - 1) :
     OffsetOf(call.loc) <= b /\ b < OffsetOf(call.loc) + call.loc.size}

\* Two successful partial writes to one slot that both read the same word.
ReadSameWord(a, b) ==
  /\ a # b
  /\ Successful(calls[a]) /\ Successful(calls[b])
  /\ calls[a].read # <<>> /\ calls[a].read = calls[b].read
  /\ CellOf(calls[a]) = CellOf(calls[b])

\* The word of the cell is the word that w sent, and the bytes of l outside the
\* field of w are those of the word that both read.
WonOver(w, l) ==
  /\ WordAt(storage, CellOf(calls[w])) = ToLower(Slice(calls[w].data, 2))
  /\ \A b \in FieldBytes(calls[l]) \ FieldBytes(calls[w]) :
       ByteAt(WordAt(storage, CellOf(calls[w])), b)
         = ToLower(ByteAt(Slice(calls[l].read, 2), b))

\* C21: the read and the write of a partial setState are separate steps without a
\* lock: when two calls on one slot have both read the same word, the final word
\* is the word of the later writer and the update of the earlier one is lost.
C21_LastWriterWins ==
  \A a, b \in Callers : ReadSameWord(a, b) => WonOver(a, b) \/ WonOver(b, a)

\* Two calls on different fields of one slot both read the old word; the update of
\* one of them is not in the final word.
C21_Witness ==
  \E w, l \in Callers :
    /\ ReadSameWord(w, l)
    /\ calls[w].req.varName # calls[l].req.varName
    /\ WonOver(w, l)
    /\ \E b \in FieldBytes(calls[l]) :
         ByteAt(WordAt(storage, CellOf(calls[w])), b)
           # ToLower(ByteAt(Slice(calls[l].data, 2), b))

\* The word that the cell of a call holds.
WordOf(call) == WordAt(storage, CellOf(call))

\* c repeats the finished call of d, and no other write came in between: the cell
\* holds the word that d sent, and a partial c has read that word.
Reissues(c, d) ==
  /\ c # d
  /\ Successful(calls[d])
  /\ calls[c].req = calls[d].req
  /\ BackendSlot(calls[c].slot).ok
  /\ WordOf(calls[d]) = ToLower(Slice(calls[d].data, 2))
  /\ calls[c].read # <<>> => ToLower(Slice(calls[c].read, 2)) = WordOf(calls[d])

\* The step is the successful backend write of c.
Writes(c) == calls[c].pc = "set" /\ calls'[c].pc = "done" /\ calls'[c].result

\* C22: a setState repeated with the same arguments, with no other write in
\* between, leaves the storage as the first call left it, for a whole-slot write
\* and for a partial one.
C22_ReissueIsIdempotent ==
  [][\A c, d \in Callers : (Reissues(c, d) /\ Writes(c)) => storage' = storage]_vars

\* A partial write has been repeated: the second call read the word of the first.
C22_Witness ==
  \E c, d \in Callers :
    /\ Reissues(c, d)
    /\ Successful(calls[c])
    /\ calls[c].read # <<>>
    /\ calls[c].read # <<"0","x">> \o WordAt(InitialStorage, CellOf(calls[c]))

\* C23: resolve is a function of the layout, the variable and the path alone: the
\* outcome (cell or error) is the one obtained without any ambient hre.
C23_ResolveIsPure ==
  Resolved =>
    rs.out = Outcome(getStorageLocation(loadStorageLayout(rq.contractName), rq.varName,
                                        rq.path, <<>>))

\* C24: every cell returned by resolve has an offset in 0..31, a width in 1..32
\* and offset + width <= 32, the whole-container cell of an empty path included.
C24_CellWithinWord ==
  (Resolved /\ rs.out.ok) =>
    /\ rs.out.offset # <<>>
    /\ 0 <= OffsetOf(rs.out) /\ OffsetOf(rs.out) <= SlotBytes - 1
    /\ 1 <= rs.out.size /\ rs.out.size <= SlotBytes
    /\ OffsetOf(rs.out) + rs.out.size <= SlotBytes

\* The path is taken whole by the declared types and ends at a scalar type of the
\* type map.
EndsAtScalar ==
  /\ RqTyped
  /\ RqWalk.left = <<>>
  /\ IsScalarType(RqWalk.at)
  /\ HasType(RqTypes, RqWalk.at)

\* The declared byte width (numberOfBytes) of a type of the type map.
DeclaredWidth(type) == DigitsValue(TypeOf(RqTypes, type).numberOfBytes, 10)

\* C25: the width of a resolved scalar cell is the declared byte width of its
\* type on every route: top-level variable, mapping value, array element and
\* struct member.
C25_WidthIsDeclared ==
  (EndsAtScalar /\ Resolved /\ rs.out.ok) => rs.out.size = DeclaredWidth(RqWalk.at)

\* The value of the low size bytes of a word read as an unsigned integer.
DecodeUint(word, size) == DigitsValue(Slice(word, 2 + HexWordDigits - 2 * size), 16)

\* The hex digits of the one's complement of a field.
ComplementHex(field) == [i \in 1..Len(field) |-> HexAlphabet[16 - DigitVal(field[i])]]

\* The value of the low size bytes of a word read as a two's complement integer.
DecodeIntField(field) ==
  IF DigitVal(field[1]) >= 8 THEN -(DigitsValue(ComplementHex(field), 16) + 1)
  ELSE DigitsValue(field, 16)

DecodeInt(word, size) == DecodeIntField(Slice(word, 2 + HexWordDigits - 2 * size))

NoCodes == [ok |-> FALSE, codes |-> <<>>]

PushCode(code, rest) == IF rest.ok THEN [ok |-> TRUE, codes |-> <<code>> \o rest.codes] ELSE NoCodes

\* The code points of UTF-8 bytes given in hex (one- and two-byte sequences).
RECURSIVE Utf8Decode(_)
Utf8DecodeFrom(b, h) ==
  IF b < 128 THEN PushCode(b, Utf8Decode(Slice(h, 2)))
  ELSE IF /\ 192 <= b /\ b < 224 /\ Len(h) >= 4
          /\ DigitsValue(SubSeq(h, 3, 4), 16) \in 128..191
    THEN PushCode((b - 192) * 64 + (DigitsValue(SubSeq(h, 3, 4), 16) - 128),
                  Utf8Decode(Slice(h, 4)))
  ELSE NoCodes

Utf8Decode(h) ==
  IF h = <<>> THEN [ok |-> TRUE, codes |-> <<>>]
  ELSE Utf8DecodeFrom(DigitsValue(SubSeq(h, 1, 2), 16), h)

\* The short string of a word: the last byte is twice the number of bytes, which
\* are the first bytes of the word.
DecodeStringOf(digits, n) ==
  IF n <= MaxShortString THEN Utf8Decode(SubSeq(digits, 1, 2 * n)) ELSE NoCodes

DecodeString(word) ==
  DecodeStringOf(Slice(word, 2),
                 DigitsValue(Slice(word, HexWordDigits), 16) \div 2)

CodePoints(s) == [ok |-> TRUE, codes |-> [i \in 1..Len(s) |-> CharCode(s[i])]]

IsBoolType(type) == StartsWith(type, <<"t","_","b","o","o","l">>)

IsAddressType(type) == StartsWith(type, <<"t","_","a","d","d","r","e","s","s">>)

\* The value to encode is a value of the type of the cell.
RqInRange ==
  IF IsUnsignedType(rq.type) \/ IsSignedType(rq.type) THEN RqIsInteger /\ RqFits
  ELSE IF IsBoolType(rq.type) THEN rq.value.t = "boolean"
  ELSE IF IsAddressType(rq.type)
    THEN rq.value.t = "string" /\ IsHexLiteral(rq.value.s) /\ Len(rq.value.s) = 42
  ELSE rq.value.t = "string" /\ ByteLength(rq.value.s) <= MaxShortString

\* The word decoded according to the type of the cell gives the value.
DecodesTo(word) ==
  IF IsUnsignedType(rq.type) THEN DecodeUint(word, rq.size) = RqInteger
  ELSE IF IsSignedType(rq.type) THEN DecodeInt(word, rq.size) = RqInteger
  ELSE IF IsBoolType(rq.type) THEN (DecodeUint(word, rq.size) # 0) = (rq.value.n = 1)
  ELSE IF IsAddressType(rq.type)
    THEN <<"0","x">> \o Slice(word, 2 + HexWordDigits - 2 * rq.size) = ToLower(rq.value.s)
  ELSE DecodeString(word) = CodePoints(rq.value.s)

\* C26: for every supported type and every in-range value, the word encoded
\* decodes according to the type to the value.
C26_RoundTrip ==
  (Encoded /\ RqInRange) => rs.word.ok /\ IsWordData(rs.word.v) /\ DecodesTo(rs.word.v)

\* The request names a variable, a member of a struct variable, an element of an
\* array variable or a value of a mapping variable.
HasDeclaredCell ==
  /\ RqDeclared
  /\ rq.path = <<>> \/ IsStructMemberRequest \/ IsElementRequest \/ IsSingleKeyRequest

\* The number of the slot of that cell, from the declared (decimal) slot of the
\* variable.
DeclaredCellSlot ==
  IF rq.path = <<>> THEN Num(DeclaredSlot)
  ELSE IF IsStructMemberRequest
    THEN Num(DeclaredSlot + DigitsValue(MemberOf(RqVar.type, rq.path[1]).slot, 10))
  ELSE IF IsElementRequest /\ IsDynamicArrayType(RqVar.type)
    THEN NumAdd(Keccak(<<WordPiece(Num(DeclaredSlot))>>), DigitsValue(rq.path[1], 10))
  ELSE IF IsElementRequest THEN Num(DeclaredSlot + DigitsValue(rq.path[1], 10))
  ELSE MappingSlotOf(Num(DeclaredSlot), DeclaredKeyType(RqVar.type), rq.path[1])

\* C27: the slot sent to the backend is the number of the slot of the cell: the
\* slot strings handed from one function to the next are read in the base they
\* were written in, for every declared slot.
C27_SlotBasePreserved ==
  (HasDeclaredCell /\ Formatted) => SentSlot = Slot(DeclaredCellSlot)

\* One or two decimal indices into a fixed-size array of dynamic arrays.
IsRowsRequest ==
  /\ RqDeclared
  /\ IsArrayType(RqVar.type) /\ ~IsDynamicArrayType(RqVar.type)
  /\ IsDynamicArrayType(DeclaredElementType(RqVar.type))
  /\ Len(rq.path) \in {1, 2}
  /\ \A k \in 1..Len(rq.path) : IsDecDigits(rq.path[k])

\* The slot of the dynamic array at the outer index.
RowSlot == DeclaredSlot + DigitsValue(rq.path[1], 10)

\* C28: the derivation of an array step follows the declared kind of the array
\* indexed, not its element type: in a fixed-size array of dynamic arrays at slot
\* s, [i] is slot s + i with the full declared element type, and [i, j] is
\* keccak256(leftPad32(s + i)) + j.
C28_ArrayKindDispatch ==
  IsRowsRequest =>
    /\ Resolved => rs.out.ok
    /\ (Resolved /\ Len(rq.path) = 1) => rs.out.type = DeclaredElementType(RqVar.type)
    /\ (Formatted /\ Len(rq.path) = 1) => SentSlot = Slot(Num(RowSlot))
    /\ (Formatted /\ Len(rq.path) = 2) =>
         SentSlot = Slot(NumAdd(Keccak(<<WordPiece(Num(RowSlot))>>),
                                DigitsValue(rq.path[2], 10)))

\* Each resolver call is made with the path one segment shorter than the call
\* before it, the first with the whole path.
ShorterByOne ==
  rs.pc = "call" =>
    /\ Len(rs.call.path) >= 1
    /\ rs.depth + Len(rs.call.path) = Len(rq.path) + 1

\* A call made names a resolver, and the resolution that ended gave a cell or an
\* error.
CellOrError ==
  /\ rs.pc = "call" =>
       rs.call.fn \in {"resolveMappingPath", "resolveArrayPath", "resolveStructPath"}
  /\ rs.pc = "done" => rs.out.ok \/ rs.out.err # ""

\* C29: every recursive step between the resolvers is entered with a path exactly
\* one segment shorter, so the depth never exceeds the length of the path, and
\* resolution ends in a cell or an error.
C29_ResolutionTerminates ==
  [][/\ ShorterByOne' /\ CellOrError'
     /\ rs'.depth <= Len(rq.path)
     /\ rs.pc = "call" =>
          rs'.pc = "done" \/ Len(rs'.call.path) = Len(rs.call.path) - 1]_vars

\* A path of two segments has been resolved to a cell through two resolver calls,
\* the second one recursive.
C29_Witness ==
  /\ rs.pc = "done"
  /\ Len(rq.path) = 2
  /\ rs.depth = 2
  /\ rs.out.ok

\* The last request of the call to the backend was hardhat_setStorageAt.
EndedWithSet(call) ==
  call.ops # <<>> /\ call.ops[Len(call.ops)].op = "hardhat_setStorageAt"

\* The resolution failed, the value has no encoding for the resolved type, or a
\* backend request failed.
SomethingFailed(call) ==
  \/ ~call.loc.ok
  \/ Unencodable(call.req.value, call.loc.type)
  \/ call.caught # ""

\* C30: setState always resolves to a boolean: to true only after its
\* hardhat_setStorageAt for the resolved slot succeeded, and to false whenever layout
\* loading, path resolution, value encoding or a backend request failed.
C30_ResultTellsOutcome ==
  \A c \in Callers :
    calls[c].pc = "done" =>
      /\ calls[c].result \in BOOLEAN
      /\ calls[c].result => EndedWithSet(calls[c]) /\ calls[c].caught = ""
      /\ SomethingFailed(calls[c]) => ~calls[c].result
=============================================================================
